---- MODULE Spec2Model ----
(***************************************************************************)
(* Model of the tfc test repository: the fixture generator (gen.cpp), the  *)
(* unit-test harness that shells out to tfc (test.cpp), the file buffers   *)
(* (BinaryFile.h, TextFile.h) and the tfc command itself. The source of    *)
(* tfc is not part of the repository; its model follows the specification  *)
(* and is tied to the code through the fixtures: every expected file that  *)
(* gen.cpp writes must be what the model of tfc produces.                  *)
(*                                                                         *)
(* A file is a sequence of bytes (integers). The file system is a function *)
(* from the paths of the existing files to their content.                  *)
(***************************************************************************)
EXTENDS Integers, Sequences, FiniteSets, TLC

VARIABLES
    dirs,       \* the directories that exist
    fs,         \* existing file path -> content (sequence of bytes)
    pc,         \* position of the running program
    testIdx,    \* index in runTests of the unit test being run
    cmdIdx,     \* number of commands of the current unit test already executed
    commands,   \* test.cpp: the vector of the commands executed so far
    statuses,   \* exit status of each command of commands
    failed,     \* unit tests with a failed REQUIRE
    before,     \* the file system as it was when the last command started
    onFail,     \* what REQUIRE of unittest.h does when its condition is false:
                \* "stop" ends the unit test, "goOn" runs its next statement
    obj         \* the BinaryFile or TextFile object of a client of the two classes:
                \* prev is its buffer as it was when the last call started, wrote
                \* the buffer its last write that returned 0 has put in the file

vars == <<dirs, fs, pc, testIdx, cmdIdx, commands, statuses, failed, before, obj, onFail>>

----------------------------------------------------------------------------
(* Bytes.                                                                  *)

TAB == 9
LF == 10
CR == 13
SP == 32
Slash == 47
Zero == 48
LetterH == 72

\* The longest file, in bytes, that tfc is run on by hand.
MaxFile == 3

\* Decimal digits of n, as operator<< writes an int.
RECURSIVE DecStr(_)
DecStr(n) == IF n < 10 THEN <<Zero + n>> ELSE DecStr(n \div 10) \o <<Zero + (n % 10)>>

\* Concatenation of a sequence of byte sequences.
RECURSIVE Flatten(_)
Flatten(ss) == IF ss = <<>> THEN <<>> ELSE Head(ss) \o Flatten(Tail(ss))

\* n copies of byte b.
Rep(b, n) == [i \in 1..n |-> b]

IsPrefix(s, t) == Len(s) <= Len(t) /\ \A i \in 1..Len(s) : s[i] = t[i]

----------------------------------------------------------------------------
(* Paths.                                                                  *)

rootDir == "testdata"
inputDir == rootDir \o "/input"
outputDir == rootDir \o "/output"
expectedDir == rootDir \o "/expected"

TestDirs == {rootDir, inputDir, outputDir, expectedDir}

\* The file names the generator and the harness build paths from.
FileStems == {"/test1", "/test2", "/test3", "/test4"}
Postfixes == {"", "s", "t", "d", "u", "sd", "td", "su", "tu"}
FileNames ==
    {st \o pf \o ".txt" : st \in FileStems, pf \in Postfixes}
    \cup {"/testSpace" \o w \o ".txt" : w \in {"", "2", "4", "8"}}
    \cup {"/testTab" \o w \o ".txt" : w \in {"", "2", "4", "8"}}
    \cup {"/testOptions.txt", "/testOverwrite.txt"}

\* The paths of the files of each directory.
DirFiles == [d \in TestDirs |-> {d \o n : n \in FileNames}]

\* The directory a path lies in; a bare file name lies in the working directory.
ParentDir(path) ==
    IF \E d \in TestDirs : path \in DirFiles[d]
    THEN CHOOSE d \in TestDirs : path \in DirFiles[d]
    ELSE "."

UnderRoot(path) == ParentDir(path) \in TestDirs

\* The bytes of the strings that are written into files.
StrBytes(s) ==
    CASE s = "testdata" -> <<116, 101, 115, 116, 100, 97, 116, 97>>
      [] s = "/input" -> <<Slash, 105, 110, 112, 117, 116>>
      [] s = "/test1.txt" -> <<Slash, 116, 101, 115, 116, 49, 46, 116, 120, 116>>
      [] s = "/test2.txt" -> <<Slash, 116, 101, 115, 116, 50, 46, 116, 120, 116>>
      [] s = "/test3.txt" -> <<Slash, 116, 101, 115, 116, 51, 46, 116, 120, 116>>
      [] s = "/test4.txt" -> <<Slash, 116, 101, 115, 116, 52, 46, 116, 120, 116>>
      [] s = "a.txt" -> <<97, 46, 116, 120, 116>>
      [] s = "b.txt" -> <<98, 46, 116, 120, 116>>
      [] s = "c.txt" -> <<99, 46, 116, 120, 116>>

SummaryInputs == {"/test1.txt", "/test2.txt", "/test3.txt", "/test4.txt"}

PathBytes(path) ==
    IF \E n \in SummaryInputs : path = inputDir \o n
    THEN LET n == CHOOSE m \in SummaryInputs : path = inputDir \o m
         IN  StrBytes("testdata") \o StrBytes("/input") \o StrBytes(n)
    ELSE StrBytes(path)

----------------------------------------------------------------------------
(* File system primitives.                                                 *)

Exists(f, path) == path \in DOMAIN f

\* An output stream opens when the directory of the path exists.
CanCreate(d, path) == ParentDir(path) = "." \/ ParentDir(path) \in d

\* A write that does not truncate: the bytes of a longer file stay behind.
Store_over(f, path, data) ==
    [p \in (DOMAIN f) \cup {path} |->
        IF p # path THEN f[p]
        ELSE IF Exists(f, path) /\ Len(f[path]) > Len(data)
             THEN data \o SubSeq(f[path], Len(data) + 1, Len(f[path]))
             ELSE data]

Store(f, path, data) ==
    [p \in (DOMAIN f) \cup {path} |-> IF p = path THEN data ELSE f[p]]

\* std::filesystem::remove_all(path): the directory and all it holds.
RemoveAll(f) == [p \in {q \in DOMAIN f : ~UnderRoot(q)} |-> f[p]]

----------------------------------------------------------------------------
(* gen.cpp: the writers.                                                   *)

TextBytes(lines) == Flatten([i \in 1..Len(lines) |-> lines[i] \o <<LF>>])

writeBinaryFile(f, d, fileName, data) ==
    IF CanCreate(d, fileName) THEN Store(f, fileName, data) ELSE f

writeTextFile(f, d, fileName, lines) ==
    IF CanCreate(d, fileName) THEN Store(f, fileName, TextBytes(lines)) ELSE f

\* A summary writer that puts the numbers before the path.
writeSummaryFile_swapped(f, d, fileName, line1, line2) ==
    IF CanCreate(d, fileName)
    THEN Store(f, fileName, line2 \o <<LF>> \o line1 \o <<LF>>)
    ELSE f

writeSummaryFile(f, d, fileName, line1, line2) ==
    IF CanCreate(d, fileName)
    THEN Store(f, fileName, line1 \o <<LF>> \o line2 \o <<LF>>)
    ELSE f

----------------------------------------------------------------------------
(* gen.cpp: the fixture tables.                                            *)

\* gen.cpp 177-187: summaryTests, std::vector<char> test1
summaryTests_test1 ==
    <<TAB, SP, SP, 83, 117, 98, SP, 49, CR, LF,
      SP, TAB, SP, SP, 67, 82, 76, 70, 46, 109, CR, LF,
      SP, TAB, CR, LF,
      TAB, SP, CR, LF,
      TAB, 72, TAB, 105, CR, LF,
      SP, 72, TAB, 105, CR, LF,
      72, TAB, 105, CR, LF,
      72, SP, 105, CR, LF,
      CR, LF>>

\* gen.cpp 210-220: summaryTests, std::vector<char> test2
summaryTests_test2 ==
    <<TAB, SP, SP, 83, 117, 98, SP, 49, LF,
      SP, TAB, SP, SP, 76, 70, 46, 109, LF,
      SP, TAB, LF,
      TAB, SP, LF,
      TAB, 72, TAB, 105, LF,
      SP, 72, TAB, 105, LF,
      72, TAB, 105, LF,
      72, SP, 105, LF,
      LF>>

\* gen.cpp 243-253: summaryTests, std::vector<char> test3
summaryTests_test3 ==
    <<TAB, SP, SP, 77, 105, 120, SP, 49, CR, LF,
      SP, TAB, SP, SP, 67, 82, 76, 70, 46, 109, LF,
      SP, TAB, CR, LF,
      TAB, SP, LF,
      TAB, 72, TAB, 105, CR, LF,
      SP, 72, TAB, 105, CR, LF,
      72, TAB, 105, LF,
      72, SP, 105, CR, LF,
      CR, LF>>

\* gen.cpp 276-286: summaryTests, std::vector<char> test4
summaryTests_test4 ==
    <<TAB, SP, SP, 83, 117, 98, SP, 49, LF, CR,
      SP, TAB, SP, SP, 76, 70, 67, 82, 46, 109, LF, CR,
      SP, TAB, LF, CR,
      TAB, SP, LF, CR,
      TAB, 72, TAB, 105, LF, CR,
      SP, 72, TAB, 105, LF, CR,
      72, TAB, 105, LF, CR,
      72, SP, 105, LF, CR,
      LF, CR>>

\* gen.cpp 311-321: spaceTests, std::vector<char> test1
spaceTests_test1 ==
    <<SP, SP, SP, SP, SP, SP, 83, 117, 98, SP, 49, CR, LF,
      SP, SP, SP, SP, SP, SP, 67, 82, 76, 70, 46, 109, CR, LF,
      SP, SP, SP, SP, CR, LF,
      SP, SP, SP, SP, SP, CR, LF,
      SP, SP, SP, SP, 72, TAB, 105, CR, LF,
      SP, 72, TAB, 105, CR, LF,
      72, TAB, 105, CR, LF,
      72, SP, 105, CR, LF,
      CR, LF>>

\* The expected file of test2s with the tab inside line 5 expanded as well.
spaceTests_test2_inside ==
    <<SP, SP, SP, SP, SP, SP, 83, 117, 98, SP, 49, LF,
      SP, SP, SP, SP, SP, SP, 76, 70, 46, 109, LF,
      SP, SP, SP, SP, LF,
      SP, SP, SP, SP, SP, LF,
      SP, SP, SP, SP, 72, SP, SP, SP, 105, LF,
      SP, 72, TAB, 105, LF,
      72, TAB, 105, LF,
      72, SP, 105, LF,
      LF>>

\* gen.cpp 326-336: spaceTests, std::vector<char> test2
spaceTests_test2 ==
    <<SP, SP, SP, SP, SP, SP, 83, 117, 98, SP, 49, LF,
      SP, SP, SP, SP, SP, SP, 76, 70, 46, 109, LF,
      SP, SP, SP, SP, LF,
      SP, SP, SP, SP, SP, LF,
      SP, SP, SP, SP, 72, TAB, 105, LF,
      SP, 72, TAB, 105, LF,
      72, TAB, 105, LF,
      72, SP, 105, LF,
      LF>>

\* gen.cpp 341-351: spaceTests, std::vector<char> test3
spaceTests_test3 ==
    <<SP, SP, SP, SP, SP, SP, 77, 105, 120, SP, 49, CR, LF,
      SP, SP, SP, SP, SP, SP, 67, 82, 76, 70, 46, 109, LF,
      SP, SP, SP, SP, CR, LF,
      SP, SP, SP, SP, SP, LF,
      SP, SP, SP, SP, 72, TAB, 105, CR, LF,
      SP, 72, TAB, 105, CR, LF,
      72, TAB, 105, LF,
      72, SP, 105, CR, LF,
      CR, LF>>

\* gen.cpp 356-366: spaceTests, std::vector<char> test4
spaceTests_test4 ==
    <<SP, SP, SP, SP, SP, SP, 83, 117, 98, SP, 49, LF, CR,
      SP, SP, SP, SP, SP, SP, 76, 70, 67, 82, 46, 109, LF, CR,
      SP, SP, SP, SP, LF, CR,
      SP, SP, SP, SP, SP, LF, CR,
      SP, SP, SP, SP, 72, TAB, 105, LF, CR,
      SP, 72, TAB, 105, LF, CR,
      72, TAB, 105, LF, CR,
      72, SP, 105, LF, CR,
      LF, CR>>

\* The expected file of test1t with the space before a tab kept (lines 2 and 3).
tabTests_test1_kept ==
    <<TAB, SP, SP, 83, 117, 98, SP, 49, CR, LF,
      SP, TAB, SP, SP, 67, 82, 76, 70, 46, 109, CR, LF,
      SP, TAB, CR, LF,
      TAB, SP, CR, LF,
      TAB, 72, TAB, 105, CR, LF,
      SP, 72, TAB, 105, CR, LF,
      72, TAB, 105, CR, LF,
      72, SP, 105, CR, LF,
      CR, LF>>

\* gen.cpp 385-395: tabTests, std::vector<char> test1
tabTests_test1 ==
    <<TAB, SP, SP, 83, 117, 98, SP, 49, CR, LF,
      TAB, SP, SP, 67, 82, 76, 70, 46, 109, CR, LF,
      TAB, CR, LF,
      TAB, SP, CR, LF,
      TAB, 72, TAB, 105, CR, LF,
      SP, 72, TAB, 105, CR, LF,
      72, TAB, 105, CR, LF,
      72, SP, 105, CR, LF,
      CR, LF>>

\* gen.cpp 400-410: tabTests, std::vector<char> test2
tabTests_test2 ==
    <<TAB, SP, SP, 83, 117, 98, SP, 49, LF,
      TAB, SP, SP, 76, 70, 46, 109, LF,
      TAB, LF,
      TAB, SP, LF,
      TAB, 72, TAB, 105, LF,
      SP, 72, TAB, 105, LF,
      72, TAB, 105, LF,
      72, SP, 105, LF,
      LF>>

\* gen.cpp 415-425: tabTests, std::vector<char> test3
tabTests_test3 ==
    <<TAB, SP, SP, 77, 105, 120, SP, 49, CR, LF,
      TAB, SP, SP, 67, 82, 76, 70, 46, 109, LF,
      TAB, CR, LF,
      TAB, SP, LF,
      TAB, 72, TAB, 105, CR, LF,
      SP, 72, TAB, 105, CR, LF,
      72, TAB, 105, LF,
      72, SP, 105, CR, LF,
      CR, LF>>

\* gen.cpp 430-440: tabTests, std::vector<char> test4
tabTests_test4 ==
    <<TAB, SP, SP, 83, 117, 98, SP, 49, LF, CR,
      TAB, SP, SP, 76, 70, 67, 82, 46, 109, LF, CR,
      TAB, LF, CR,
      TAB, SP, LF, CR,
      TAB, 72, TAB, 105, LF, CR,
      SP, 72, TAB, 105, LF, CR,
      72, TAB, 105, LF, CR,
      72, SP, 105, LF, CR,
      LF, CR>>

\* gen.cpp 459-469: dosTests, std::vector<char> test1
dosTests_test1 ==
    <<TAB, SP, SP, 83, 117, 98, SP, 49, CR, LF,
      SP, TAB, SP, SP, 67, 82, 76, 70, 46, 109, CR, LF,
      SP, TAB, CR, LF,
      TAB, SP, CR, LF,
      TAB, 72, TAB, 105, CR, LF,
      SP, 72, TAB, 105, CR, LF,
      72, TAB, 105, CR, LF,
      72, SP, 105, CR, LF,
      CR, LF>>

\* The expected file of test2d with the last line left as in the input, a lone
\* LF.
dosTests_test2_lf ==
    <<TAB, SP, SP, 83, 117, 98, SP, 49, CR, LF,
      SP, TAB, SP, SP, 76, 70, 46, 109, CR, LF,
      SP, TAB, CR, LF,
      TAB, SP, CR, LF,
      TAB, 72, TAB, 105, CR, LF,
      SP, 72, TAB, 105, CR, LF,
      72, TAB, 105, CR, LF,
      72, SP, 105, CR, LF,
      LF>>

\* gen.cpp 474-484: dosTests, std::vector<char> test2
dosTests_test2 ==
    <<TAB, SP, SP, 83, 117, 98, SP, 49, CR, LF,
      SP, TAB, SP, SP, 76, 70, 46, 109, CR, LF,
      SP, TAB, CR, LF,
      TAB, SP, CR, LF,
      TAB, 72, TAB, 105, CR, LF,
      SP, 72, TAB, 105, CR, LF,
      72, TAB, 105, CR, LF,
      72, SP, 105, CR, LF,
      CR, LF>>

\* gen.cpp 489-499: dosTests, std::vector<char> test3
dosTests_test3 ==
    <<TAB, SP, SP, 77, 105, 120, SP, 49, CR, LF,
      SP, TAB, SP, SP, 67, 82, 76, 70, 46, 109, CR, LF,
      SP, TAB, CR, LF,
      TAB, SP, CR, LF,
      TAB, 72, TAB, 105, CR, LF,
      SP, 72, TAB, 105, CR, LF,
      72, TAB, 105, CR, LF,
      72, SP, 105, CR, LF,
      CR, LF>>

\* The expected file of test4d with the third line left as it is in the input,
\* ending in LF CR.
dosTests_test4_kept ==
    <<TAB, SP, SP, 83, 117, 98, SP, 49, CR, LF,
      SP, TAB, SP, SP, 76, 70, 67, 82, 46, 109, CR, LF,
      SP, TAB, LF, CR,
      TAB, SP, CR, LF,
      TAB, 72, TAB, 105, CR, LF,
      SP, 72, TAB, 105, CR, LF,
      72, TAB, 105, CR, LF,
      72, SP, 105, CR, LF,
      CR, LF>>

\* gen.cpp 504-514: dosTests, std::vector<char> test4
dosTests_test4 ==
    <<TAB, SP, SP, 83, 117, 98, SP, 49, CR, LF,
      SP, TAB, SP, SP, 76, 70, 67, 82, 46, 109, CR, LF,
      SP, TAB, CR, LF,
      TAB, SP, CR, LF,
      TAB, 72, TAB, 105, CR, LF,
      SP, 72, TAB, 105, CR, LF,
      72, TAB, 105, CR, LF,
      72, SP, 105, CR, LF,
      CR, LF>>

\* gen.cpp 533-543: unixTests, std::vector<char> test1
unixTests_test1 ==
    <<TAB, SP, SP, 83, 117, 98, SP, 49, LF,
      SP, TAB, SP, SP, 67, 82, 76, 70, 46, 109, LF,
      SP, TAB, LF,
      TAB, SP, LF,
      TAB, 72, TAB, 105, LF,
      SP, 72, TAB, 105, LF,
      72, TAB, 105, LF,
      72, SP, 105, LF,
      LF>>

\* gen.cpp 548-558: unixTests, std::vector<char> test2
unixTests_test2 ==
    <<TAB, SP, SP, 83, 117, 98, SP, 49, LF,
      SP, TAB, SP, SP, 76, 70, 46, 109, LF,
      SP, TAB, LF,
      TAB, SP, LF,
      TAB, 72, TAB, 105, LF,
      SP, 72, TAB, 105, LF,
      72, TAB, 105, LF,
      72, SP, 105, LF,
      LF>>

\* gen.cpp 563-573: unixTests, std::vector<char> test3
unixTests_test3 ==
    <<TAB, SP, SP, 77, 105, 120, SP, 49, LF,
      SP, TAB, SP, SP, 67, 82, 76, 70, 46, 109, LF,
      SP, TAB, LF,
      TAB, SP, LF,
      TAB, 72, TAB, 105, LF,
      SP, 72, TAB, 105, LF,
      72, TAB, 105, LF,
      72, SP, 105, LF,
      LF>>

\* gen.cpp 578-588: unixTests, std::vector<char> test4
unixTests_test4 ==
    <<TAB, SP, SP, 83, 117, 98, SP, 49, LF,
      SP, TAB, SP, SP, 76, 70, 67, 82, 46, 109, LF,
      SP, TAB, LF,
      TAB, SP, LF,
      TAB, 72, TAB, 105, LF,
      SP, 72, TAB, 105, LF,
      72, TAB, 105, LF,
      72, SP, 105, LF,
      LF>>

\* gen.cpp 607-617: spaceDosTests, std::vector<char> test1
spaceDosTests_test1 ==
    <<SP, SP, SP, SP, SP, SP, 83, 117, 98, SP, 49, CR, LF,
      SP, SP, SP, SP, SP, SP, 67, 82, 76, 70, 46, 109, CR, LF,
      SP, SP, SP, SP, CR, LF,
      SP, SP, SP, SP, SP, CR, LF,
      SP, SP, SP, SP, 72, TAB, 105, CR, LF,
      SP, 72, TAB, 105, CR, LF,
      72, TAB, 105, CR, LF,
      72, SP, 105, CR, LF,
      CR, LF>>

\* gen.cpp 622-632: spaceDosTests, std::vector<char> test2
spaceDosTests_test2 ==
    <<SP, SP, SP, SP, SP, SP, 83, 117, 98, SP, 49, CR, LF,
      SP, SP, SP, SP, SP, SP, 76, 70, 46, 109, CR, LF,
      SP, SP, SP, SP, CR, LF,
      SP, SP, SP, SP, SP, CR, LF,
      SP, SP, SP, SP, 72, TAB, 105, CR, LF,
      SP, 72, TAB, 105, CR, LF,
      72, TAB, 105, CR, LF,
      72, SP, 105, CR, LF,
      CR, LF>>

\* The expected file of test3sd with the terminator of line 2 left as in the
\* input, a lone LF.
spaceDosTests_test3_lf ==
    <<SP, SP, SP, SP, SP, SP, 77, 105, 120, SP, 49, CR, LF,
      SP, SP, SP, SP, SP, SP, 67, 82, 76, 70, 46, 109, LF,
      SP, SP, SP, SP, CR, LF,
      SP, SP, SP, SP, SP, CR, LF,
      SP, SP, SP, SP, 72, TAB, 105, CR, LF,
      SP, 72, TAB, 105, CR, LF,
      72, TAB, 105, CR, LF,
      72, SP, 105, CR, LF,
      CR, LF>>

\* gen.cpp 637-647: spaceDosTests, std::vector<char> test3
spaceDosTests_test3 ==
    <<SP, SP, SP, SP, SP, SP, 77, 105, 120, SP, 49, CR, LF,
      SP, SP, SP, SP, SP, SP, 67, 82, 76, 70, 46, 109, CR, LF,
      SP, SP, SP, SP, CR, LF,
      SP, SP, SP, SP, SP, CR, LF,
      SP, SP, SP, SP, 72, TAB, 105, CR, LF,
      SP, 72, TAB, 105, CR, LF,
      72, TAB, 105, CR, LF,
      72, SP, 105, CR, LF,
      CR, LF>>

\* gen.cpp 652-662: spaceDosTests, std::vector<char> test4
spaceDosTests_test4 ==
    <<SP, SP, SP, SP, SP, SP, 83, 117, 98, SP, 49, CR, LF,
      SP, SP, SP, SP, SP, SP, 76, 70, 67, 82, 46, 109, CR, LF,
      SP, SP, SP, SP, CR, LF,
      SP, SP, SP, SP, SP, CR, LF,
      SP, SP, SP, SP, 72, TAB, 105, CR, LF,
      SP, 72, TAB, 105, CR, LF,
      72, TAB, 105, CR, LF,
      72, SP, 105, CR, LF,
      CR, LF>>

\* The expected file of test1td with the space after the tab of line 4 lost.
tabDosTests_test1_lost ==
    <<TAB, SP, SP, 83, 117, 98, SP, 49, CR, LF,
      TAB, SP, SP, 67, 82, 76, 70, 46, 109, CR, LF,
      TAB, CR, LF,
      TAB, CR, LF,
      TAB, 72, TAB, 105, CR, LF,
      SP, 72, TAB, 105, CR, LF,
      72, TAB, 105, CR, LF,
      72, SP, 105, CR, LF,
      CR, LF>>

\* gen.cpp 681-691: tabDosTests, std::vector<char> test1
tabDosTests_test1 ==
    <<TAB, SP, SP, 83, 117, 98, SP, 49, CR, LF,
      TAB, SP, SP, 67, 82, 76, 70, 46, 109, CR, LF,
      TAB, CR, LF,
      TAB, SP, CR, LF,
      TAB, 72, TAB, 105, CR, LF,
      SP, 72, TAB, 105, CR, LF,
      72, TAB, 105, CR, LF,
      72, SP, 105, CR, LF,
      CR, LF>>

\* gen.cpp 696-706: tabDosTests, std::vector<char> test2
tabDosTests_test2 ==
    <<TAB, SP, SP, 83, 117, 98, SP, 49, CR, LF,
      TAB, SP, SP, 76, 70, 46, 109, CR, LF,
      TAB, CR, LF,
      TAB, SP, CR, LF,
      TAB, 72, TAB, 105, CR, LF,
      SP, 72, TAB, 105, CR, LF,
      72, TAB, 105, CR, LF,
      72, SP, 105, CR, LF,
      CR, LF>>

\* gen.cpp 711-721: tabDosTests, std::vector<char> test3
tabDosTests_test3 ==
    <<TAB, SP, SP, 77, 105, 120, SP, 49, CR, LF,
      TAB, SP, SP, 67, 82, 76, 70, 46, 109, CR, LF,
      TAB, CR, LF,
      TAB, SP, CR, LF,
      TAB, 72, TAB, 105, CR, LF,
      SP, 72, TAB, 105, CR, LF,
      72, TAB, 105, CR, LF,
      72, SP, 105, CR, LF,
      CR, LF>>

\* gen.cpp 726-736: tabDosTests, std::vector<char> test4
tabDosTests_test4 ==
    <<TAB, SP, SP, 83, 117, 98, SP, 49, CR, LF,
      TAB, SP, SP, 76, 70, 67, 82, 46, 109, CR, LF,
      TAB, CR, LF,
      TAB, SP, CR, LF,
      TAB, 72, TAB, 105, CR, LF,
      SP, 72, TAB, 105, CR, LF,
      72, TAB, 105, CR, LF,
      72, SP, 105, CR, LF,
      CR, LF>>

\* The expected file of test1su with tab stops every 8 columns.
spaceUnixTests_test1_wide ==
    <<SP, SP, SP, SP, SP, SP, SP, SP, SP, SP, 83, 117, 98, SP, 49, LF,
      SP, SP, SP, SP, SP, SP, SP, SP, SP, SP, 67, 82, 76, 70, 46, 109, LF,
      SP, SP, SP, SP, SP, SP, SP, SP, LF,
      SP, SP, SP, SP, SP, SP, SP, SP, SP, LF,
      SP, SP, SP, SP, SP, SP, SP, SP, 72, TAB, 105, LF,
      SP, 72, TAB, 105, LF,
      72, TAB, 105, LF,
      72, SP, 105, LF,
      LF>>

\* gen.cpp 755-765: spaceUnixTests, std::vector<char> test1
spaceUnixTests_test1 ==
    <<SP, SP, SP, SP, SP, SP, 83, 117, 98, SP, 49, LF,
      SP, SP, SP, SP, SP, SP, 67, 82, 76, 70, 46, 109, LF,
      SP, SP, SP, SP, LF,
      SP, SP, SP, SP, SP, LF,
      SP, SP, SP, SP, 72, TAB, 105, LF,
      SP, 72, TAB, 105, LF,
      72, TAB, 105, LF,
      72, SP, 105, LF,
      LF>>

\* gen.cpp 770-780: spaceUnixTests, std::vector<char> test2
spaceUnixTests_test2 ==
    <<SP, SP, SP, SP, SP, SP, 83, 117, 98, SP, 49, LF,
      SP, SP, SP, SP, SP, SP, 76, 70, 46, 109, LF,
      SP, SP, SP, SP, LF,
      SP, SP, SP, SP, SP, LF,
      SP, SP, SP, SP, 72, TAB, 105, LF,
      SP, 72, TAB, 105, LF,
      72, TAB, 105, LF,
      72, SP, 105, LF,
      LF>>

\* gen.cpp 785-795: spaceUnixTests, std::vector<char> test3
spaceUnixTests_test3 ==
    <<SP, SP, SP, SP, SP, SP, 77, 105, 120, SP, 49, LF,
      SP, SP, SP, SP, SP, SP, 67, 82, 76, 70, 46, 109, LF,
      SP, SP, SP, SP, LF,
      SP, SP, SP, SP, SP, LF,
      SP, SP, SP, SP, 72, TAB, 105, LF,
      SP, 72, TAB, 105, LF,
      72, TAB, 105, LF,
      72, SP, 105, LF,
      LF>>

\* gen.cpp 800-810: spaceUnixTests, std::vector<char> test4
spaceUnixTests_test4 ==
    <<SP, SP, SP, SP, SP, SP, 83, 117, 98, SP, 49, LF,
      SP, SP, SP, SP, SP, SP, 76, 70, 67, 82, 46, 109, LF,
      SP, SP, SP, SP, LF,
      SP, SP, SP, SP, SP, LF,
      SP, SP, SP, SP, 72, TAB, 105, LF,
      SP, 72, TAB, 105, LF,
      72, TAB, 105, LF,
      72, SP, 105, LF,
      LF>>

\* gen.cpp 829-839: tabUnixTests, std::vector<char> test1
tabUnixTests_test1 ==
    <<TAB, SP, SP, 83, 117, 98, SP, 49, LF,
      TAB, SP, SP, 67, 82, 76, 70, 46, 109, LF,
      TAB, LF,
      TAB, SP, LF,
      TAB, 72, TAB, 105, LF,
      SP, 72, TAB, 105, LF,
      72, TAB, 105, LF,
      72, SP, 105, LF,
      LF>>

\* gen.cpp 844-854: tabUnixTests, std::vector<char> test2
tabUnixTests_test2 ==
    <<TAB, SP, SP, 83, 117, 98, SP, 49, LF,
      TAB, SP, SP, 76, 70, 46, 109, LF,
      TAB, LF,
      TAB, SP, LF,
      TAB, 72, TAB, 105, LF,
      SP, 72, TAB, 105, LF,
      72, TAB, 105, LF,
      72, SP, 105, LF,
      LF>>

\* gen.cpp 859-869: tabUnixTests, std::vector<char> test3
tabUnixTests_test3 ==
    <<TAB, SP, SP, 77, 105, 120, SP, 49, LF,
      TAB, SP, SP, 67, 82, 76, 70, 46, 109, LF,
      TAB, LF,
      TAB, SP, LF,
      TAB, 72, TAB, 105, LF,
      SP, 72, TAB, 105, LF,
      72, TAB, 105, LF,
      72, SP, 105, LF,
      LF>>

\* gen.cpp 874-884: tabUnixTests, std::vector<char> test4
tabUnixTests_test4 ==
    <<TAB, SP, SP, 83, 117, 98, SP, 49, LF,
      TAB, SP, SP, 76, 70, 67, 82, 46, 109, LF,
      TAB, LF,
      TAB, SP, LF,
      TAB, 72, TAB, 105, LF,
      SP, 72, TAB, 105, LF,
      72, TAB, 105, LF,
      72, SP, 105, LF,
      LF>>

\* gen.cpp 907-918: spaceToTabTests, std::vector<std::string> testSpace
spaceToTabTests_testSpace ==
    <<<<48>>,
      <<SP, 49>>,
      <<SP, SP, 50>>,
      <<SP, SP, SP, 51>>,
      <<SP, SP, SP, SP, 52>>,
      <<SP, SP, SP, SP, SP, 53>>,
      <<SP, SP, SP, SP, SP, SP, 54>>,
      <<SP, SP, SP, SP, SP, SP, SP, 55>>,
      <<SP, SP, SP, SP, SP, SP, SP, SP, 56>>,
      <<SP, SP, SP, SP, SP, SP, SP, SP, SP, 57>>>>

\* testSpace2 with the odd space of line 3 made a tab.
spaceToTabTests_testSpace2_up ==
    [n \in 1..10 |-> IF n = 4 THEN <<TAB, TAB, 51>>
                     ELSE Rep(TAB, (n - 1) \div 2) \o Rep(SP, (n - 1) % 2) \o <<Zero + (n - 1)>>]

\* gen.cpp 923-934: spaceToTabTests, std::vector<std::string> testSpace2
spaceToTabTests_testSpace2 ==
    <<<<48>>,
      <<SP, 49>>,
      <<TAB, 50>>,
      <<TAB, SP, 51>>,
      <<TAB, TAB, 52>>,
      <<TAB, TAB, SP, 53>>,
      <<TAB, TAB, TAB, 54>>,
      <<TAB, TAB, TAB, SP, 55>>,
      <<TAB, TAB, TAB, TAB, 56>>,
      <<TAB, TAB, TAB, TAB, SP, 57>>>>

\* gen.cpp 939-950: spaceToTabTests, std::vector<std::string> testSpace4
spaceToTabTests_testSpace4 ==
    <<<<48>>,
      <<SP, 49>>,
      <<SP, SP, 50>>,
      <<SP, SP, SP, 51>>,
      <<TAB, 52>>,
      <<TAB, SP, 53>>,
      <<TAB, SP, SP, 54>>,
      <<TAB, SP, SP, SP, 55>>,
      <<TAB, TAB, 56>>,
      <<TAB, TAB, SP, 57>>>>

\* testSpace8 with the run of exactly 8 spaces not folded.
spaceToTabTests_testSpace8_late ==
    <<<<48>>,
      <<SP, 49>>,
      <<SP, SP, 50>>,
      <<SP, SP, SP, 51>>,
      <<SP, SP, SP, SP, 52>>,
      <<SP, SP, SP, SP, SP, 53>>,
      <<SP, SP, SP, SP, SP, SP, 54>>,
      <<SP, SP, SP, SP, SP, SP, SP, 55>>,
      <<SP, SP, SP, SP, SP, SP, SP, SP, 56>>,
      <<TAB, SP, 57>>>>

\* gen.cpp 955-966: spaceToTabTests, std::vector<std::string> testSpace8
spaceToTabTests_testSpace8 ==
    <<<<48>>,
      <<SP, 49>>,
      <<SP, SP, 50>>,
      <<SP, SP, SP, 51>>,
      <<SP, SP, SP, SP, 52>>,
      <<SP, SP, SP, SP, SP, 53>>,
      <<SP, SP, SP, SP, SP, SP, 54>>,
      <<SP, SP, SP, SP, SP, SP, SP, 55>>,
      <<TAB, 56>>,
      <<TAB, SP, 57>>>>

\* gen.cpp 988-999: tabToSpaceTests, std::vector<std::string> testTab
tabToSpaceTests_testTab ==
    <<<<TAB, 48>>,
      <<SP, TAB, 49>>,
      <<SP, SP, TAB, 50>>,
      <<SP, SP, SP, TAB, 51>>,
      <<SP, SP, SP, SP, TAB, 52>>,
      <<SP, SP, SP, SP, SP, TAB, 53>>,
      <<SP, SP, SP, SP, SP, SP, TAB, 54>>,
      <<SP, SP, SP, SP, SP, SP, SP, TAB, 55>>,
      <<SP, SP, SP, SP, SP, SP, SP, SP, TAB, 56>>,
      <<SP, SP, SP, SP, SP, SP, SP, SP, SP, TAB, 57>>>>

\* gen.cpp 1004-1015: tabToSpaceTests, std::vector<std::string> testTab2
tabToSpaceTests_testTab2 ==
    <<<<SP, SP, 48>>,
      <<SP, SP, 49>>,
      <<SP, SP, SP, SP, 50>>,
      <<SP, SP, SP, SP, 51>>,
      <<SP, SP, SP, SP, SP, SP, 52>>,
      <<SP, SP, SP, SP, SP, SP, 53>>,
      <<SP, SP, SP, SP, SP, SP, SP, SP, 54>>,
      <<SP, SP, SP, SP, SP, SP, SP, SP, 55>>,
      <<SP, SP, SP, SP, SP, SP, SP, SP, SP, SP, 56>>,
      <<SP, SP, SP, SP, SP, SP, SP, SP, SP, SP, 57>>>>

\* testTab4 with every tab expanded to 4 spaces wherever it stands.
tabToSpaceTests_testTab4_flat ==
    [n \in 1..10 |-> Rep(SP, (n - 1) + 4) \o <<Zero + (n - 1)>>]

\* gen.cpp 1020-1031: tabToSpaceTests, std::vector<std::string> testTab4
tabToSpaceTests_testTab4 ==
    <<<<SP, SP, SP, SP, 48>>,
      <<SP, SP, SP, SP, 49>>,
      <<SP, SP, SP, SP, 50>>,
      <<SP, SP, SP, SP, 51>>,
      <<SP, SP, SP, SP, SP, SP, SP, SP, 52>>,
      <<SP, SP, SP, SP, SP, SP, SP, SP, 53>>,
      <<SP, SP, SP, SP, SP, SP, SP, SP, 54>>,
      <<SP, SP, SP, SP, SP, SP, SP, SP, 55>>,
      <<SP, SP, SP, SP, SP, SP, SP, SP, SP, SP, SP, SP, 56>>,
      <<SP, SP, SP, SP, SP, SP, SP, SP, SP, SP, SP, SP, 57>>>>

\* testTab8 with the tab of the last line left in place after its 8 spaces.
tabToSpaceTests_testTab8_tab ==
    [n \in 1..10 |-> IF n = 10 THEN Rep(SP, 8) \o <<TAB, 57>>
                     ELSE Rep(SP, IF n = 9 THEN 16 ELSE 8) \o <<Zero + (n - 1)>>]

\* gen.cpp 1036-1047: tabToSpaceTests, std::vector<std::string> testTab8
tabToSpaceTests_testTab8 ==
    <<<<SP, SP, SP, SP, SP, SP, SP, SP, 48>>,
      <<SP, SP, SP, SP, SP, SP, SP, SP, 49>>,
      <<SP, SP, SP, SP, SP, SP, SP, SP, 50>>,
      <<SP, SP, SP, SP, SP, SP, SP, SP, 51>>,
      <<SP, SP, SP, SP, SP, SP, SP, SP, 52>>,
      <<SP, SP, SP, SP, SP, SP, SP, SP, 53>>,
      <<SP, SP, SP, SP, SP, SP, SP, SP, 54>>,
      <<SP, SP, SP, SP, SP, SP, SP, SP, 55>>,
      <<SP, SP, SP, SP, SP, SP, SP, SP, SP, SP, SP, SP, SP, SP, SP, SP, 56>>,
      <<SP, SP, SP, SP, SP, SP, SP, SP, SP, SP, SP, SP, SP, SP, SP, SP, 57>>>>

\* gen.cpp 1066-1072: optionsTests, std::vector<std::string> testOptions
optionsTests_testOptions ==
    <<<<76, 105, 110, 101, SP, 48>>,
      <<76, 105, 110, 101, SP, 49>>,
      <<76, 105, 110, 101, SP, 50>>,
      <<76, 105, 110, 101, SP, 51>>,
      <<76, 105, 110, 101, SP, 52>>>>

\* The summary of test1 with its two lines that start with a space and a tab
\* counted as SpaceOnly: "9 3 1 3 2 9 0 0".
summaryTests_summary1_first == <<57, SP, 51, SP, 49, SP, 51, SP, 50, SP, 57, SP, 48, SP, 48>>

\* gen.cpp 194: writeSummaryFile(expected, input, "9 1 1 3 4 9 0 0")
summaryTests_summary1 == <<57, SP, 49, SP, 49, SP, 51, SP, 52, SP, 57, SP, 48, SP, 48>>

\* gen.cpp 227: writeSummaryFile(expected, input, "9 1 1 3 4 0 9 0")
summaryTests_summary2 == <<57, SP, 49, SP, 49, SP, 51, SP, 52, SP, 48, SP, 57, SP, 48>>

\* The summary of test3 with the Unix count one short: "9 1 1 3 4 6 2 0".
summaryTests_summary3_short == <<57, SP, 49, SP, 49, SP, 51, SP, 52, SP, 54, SP, 50, SP, 48>>

\* gen.cpp 260: writeSummaryFile(expected, input, "9 1 1 3 4 6 3 0")
summaryTests_summary3 == <<57, SP, 49, SP, 49, SP, 51, SP, 52, SP, 54, SP, 51, SP, 48>>

\* gen.cpp 293: writeSummaryFile(expected, input, "9 1 1 3 4 0 0 9")
summaryTests_summary4 == <<57, SP, 49, SP, 49, SP, 51, SP, 52, SP, 48, SP, 48, SP, 57>>

----------------------------------------------------------------------------
(* tfc: the line scanner. A line is a leading run of spaces and tabs, a    *)
(* body that runs to the next CR or LF, and a terminator. A terminator is  *)
(* read greedily, two bytes at most: CR LF, LF CR, a lone CR or a lone LF. *)

IsBlank(b) == b \in {SP, TAB}
IsEol(b) == b \in {CR, LF}

\* Length of the longest prefix of s whose bytes all satisfy "in set".
BlankLen(s) ==
    CHOOSE k \in 0..Len(s) :
        /\ \A i \in 1..k : IsBlank(s[i])
        /\ (k = Len(s) \/ ~IsBlank(s[k + 1]))

BodyLen(s) ==
    CHOOSE k \in 0..Len(s) :
        /\ \A i \in 1..k : ~IsEol(s[i])
        /\ (k = Len(s) \/ IsEol(s[k + 1]))

Terminator(s) ==
    IF s = <<>> THEN <<>>
    ELSE IF s[1] = CR
         THEN IF Len(s) >= 2 /\ s[2] = LF THEN <<CR, LF>> ELSE <<CR>>
         ELSE IF Len(s) >= 2 /\ s[2] = CR THEN <<LF, CR>> ELSE <<LF>>

Drop(s, n) == SubSeq(s, n + 1, Len(s))

RECURSIVE Lines(_)
Lines(s) ==
    IF s = <<>> THEN <<>>
    ELSE LET lead == SubSeq(s, 1, BlankLen(s))
             r1   == Drop(s, Len(lead))
             body == SubSeq(r1, 1, BodyLen(r1))
             r2   == Drop(r1, Len(body))
             term == Terminator(r2)
         IN  <<[lead |-> lead, body |-> body, term |-> term]>>
                 \o Lines(Drop(r2, Len(term)))

LineBytes(l) == l.lead \o l.body \o l.term

----------------------------------------------------------------------------
(* tfc: the line classifier and the summary.                               *)

LeadKind(lead) ==
    IF lead = <<>> THEN "Neither"
    ELSE IF \A i \in 1..Len(lead) : lead[i] = SP THEN "SpaceOnly"
    ELSE IF \A i \in 1..Len(lead) : lead[i] = TAB THEN "TabOnly"
    ELSE "Both"

\* A classifier that takes a lone CR for a Dos terminator.
TermKind_cr(term) ==
    IF term \in {<<CR, LF>>, <<CR>>} THEN "Dos"
    ELSE IF term = <<LF>> THEN "Unix"
    ELSE "Malformed"

TermKind(term) ==
    IF term = <<CR, LF>> THEN "Dos"
    ELSE IF term = <<LF>> THEN "Unix"
    ELSE "Malformed"

CountLead(ls, kind) == Cardinality({i \in 1..Len(ls) : LeadKind(ls[i].lead) = kind})
CountTerm(ls, kind) == Cardinality({i \in 1..Len(ls) : TermKind(ls[i].term) = kind})

\* total, space-only, tab-only, neither, both, dos, unix, malformed
SummaryCounts(data) ==
    LET ls == Lines(data)
    IN  <<Len(ls),
          CountLead(ls, "SpaceOnly"), CountLead(ls, "TabOnly"),
          CountLead(ls, "Neither"), CountLead(ls, "Both"),
          CountTerm(ls, "Dos"), CountTerm(ls, "Unix"), CountTerm(ls, "Malformed")>>

RECURSIVE JoinInts(_)
JoinInts(ns) ==
    IF Len(ns) = 1 THEN DecStr(ns[1])
    ELSE DecStr(Head(ns)) \o <<SP>> \o JoinInts(Tail(ns))

SummaryText(path, data) ==
    PathBytes(path) \o <<LF>> \o JoinInts(SummaryCounts(data)) \o <<LF>>

----------------------------------------------------------------------------
(* tfc: the converters.                                                    *)

DefaultWidth == 4

\* The column the leading run ends in, with a tab stop every W columns.
RECURSIVE Column(_, _, _)
Column(lead, W, col) ==
    IF lead = <<>> THEN col
    ELSE Column(Tail(lead), W,
                IF Head(lead) = TAB THEN ((col \div W) + 1) * W ELSE col + 1)

ToSpace(lead, W) == Rep(SP, Column(lead, W, 0))

ToTab(lead, W) ==
    LET col == Column(lead, W, 0)
    IN  Rep(TAB, col \div W) \o Rep(SP, col % W)

ConvertLead(lead, indent, W) ==
    IF indent = "space" THEN ToSpace(lead, W)
    ELSE IF indent = "tab" THEN ToTab(lead, W)
    ELSE lead

ConvertTerm(term, eol) ==
    IF term = <<>> THEN <<>>
    ELSE IF eol = "dos" THEN <<CR, LF>>
    ELSE IF eol = "unix" THEN <<LF>>
    ELSE term

ConvertLine(l, indent, W, eol) ==
    [lead |-> ConvertLead(l.lead, indent, W),
     body |-> l.body,
     term |-> ConvertTerm(l.term, eol)]

Convert(data, indent, W, eol) ==
    LET ls == Lines(data)
    IN  Flatten([i \in 1..Len(ls) |-> LineBytes(ConvertLine(ls[i], indent, W, eol))])

----------------------------------------------------------------------------
(* tfc: the command line.                                                  *)

DefaultConfig ==
    [error |-> FALSE, help |-> FALSE, input |-> "", output |-> "", replace |-> "",
     indent |-> "none", width |-> 0, eol |-> "none", summary |-> FALSE]

RECURSIVE ParseArgs(_, _)
ParseArgs(args, cfg) ==
    IF args = <<>> THEN cfg
    ELSE LET a == Head(args)
             rest == Tail(args)
             Value(field) ==
                 IF rest = <<>> THEN [cfg EXCEPT !.error = TRUE]
                 ELSE ParseArgs(Tail(rest), [cfg EXCEPT ![field] = Head(rest)])
         IN  CASE a \in {"-h", "--help", "-v", "--version"} -> [cfg EXCEPT !.help = TRUE]
               [] a \in {"-i", "--input"} -> Value("input")
               [] a \in {"-o", "--output"} -> Value("output")
               [] a \in {"-r", "--replace"} -> Value("replace")
               [] a \in {"-s", "--space"} -> ParseArgs(rest, [cfg EXCEPT !.indent = "space"])
               [] a \in {"-t", "--tab"} -> ParseArgs(rest, [cfg EXCEPT !.indent = "tab"])
               [] a \in {"-d", "--dos"} -> ParseArgs(rest, [cfg EXCEPT !.eol = "dos"])
               [] a \in {"-u", "--unix"} -> ParseArgs(rest, [cfg EXCEPT !.eol = "unix"])
               [] a = "-x" -> ParseArgs(rest, [cfg EXCEPT !.summary = TRUE])
               [] a = "-2" -> ParseArgs(rest, [cfg EXCEPT !.width = 2])
               [] a = "-4" -> ParseArgs(rest, [cfg EXCEPT !.width = 4])
               [] a = "-8" -> ParseArgs(rest, [cfg EXCEPT !.width = 8])
               [] OTHER -> [cfg EXCEPT !.error = TRUE]

Config(argv) == ParseArgs(argv, DefaultConfig)

Converting(cfg) == cfg.indent # "none" \/ cfg.eol # "none"
Source(cfg) == IF cfg.replace # "" THEN cfg.replace ELSE cfg.input
\* The destination of a tfc that writes over the file it has read.
Dest_source(cfg) == Source(cfg)
Dest(cfg) == IF cfg.replace # "" THEN cfg.replace ELSE cfg.output
Width(cfg) == IF cfg.width = 0 THEN DefaultWidth ELSE cfg.width

\* What the command checks before it touches a file.
Rejected(cfg, f) ==
    \/ cfg.error
    \/ cfg.replace # "" /\ (cfg.output # "" \/ ~Converting(cfg))
    \/ Source(cfg) = ""
    \/ ~Exists(f, Source(cfg))
    \/ cfg.output # "" /\ cfg.output = cfg.input

Output(cfg, f) ==
    IF Converting(cfg)
    THEN Convert(f[Source(cfg)], cfg.indent, Width(cfg), cfg.eol)
    ELSE SummaryText(Source(cfg), f[Source(cfg)])

\* A tfc that checks its paths after it has written.
Tfc_late(argv, f, d) ==
    LET cfg == Config(argv)
    IN  IF cfg.help /\ ~cfg.error THEN [exit |-> 0, fs |-> f]
        ELSE IF cfg.error \/ ~Exists(f, Source(cfg)) THEN [exit |-> 1, fs |-> f]
        ELSE IF Dest(cfg) = "" THEN [exit |-> 0, fs |-> f]
        ELSE IF ~CanCreate(d, Dest(cfg)) THEN [exit |-> 1, fs |-> f]
        ELSE [exit |-> IF Rejected(cfg, f) THEN 1 ELSE 0,
              fs |-> Store(f, Dest(cfg), Output(cfg, f))]

\* A tfc that opens its destination, which empties it, before it reads its
\* source.
Tfc_truncating(argv, f, d) ==
    LET cfg == Config(argv)
    IN  IF cfg.help /\ ~cfg.error THEN [exit |-> 0, fs |-> f]
        ELSE IF Rejected(cfg, f) THEN [exit |-> 1, fs |-> f]
        ELSE IF Dest(cfg) = "" THEN [exit |-> 0, fs |-> f]
        ELSE IF ~CanCreate(d, Dest(cfg)) THEN [exit |-> 1, fs |-> f]
        ELSE [exit |-> 0,
              fs |-> Store(f, Dest(cfg), Output(cfg, Store(f, Dest(cfg), <<>>)))]

\* A tfc that writes into the destination as it finds it: the bytes of a
\* longer earlier content stay behind the new ones.
Tfc_over(argv, f, d) ==
    LET cfg == Config(argv)
    IN  IF cfg.help /\ ~cfg.error THEN [exit |-> 0, fs |-> f]
        ELSE IF Rejected(cfg, f) THEN [exit |-> 1, fs |-> f]
        ELSE IF Dest(cfg) = "" THEN [exit |-> 0, fs |-> f]
        ELSE IF ~CanCreate(d, Dest(cfg)) THEN [exit |-> 1, fs |-> f]
        ELSE [exit |-> 0, fs |-> Store_over(f, Dest(cfg), Output(cfg, f))]

\* One run of tfc: the exit status and the file system it leaves.
Tfc(argv, f, d) ==
    LET cfg == Config(argv)
    IN  IF cfg.help /\ ~cfg.error THEN [exit |-> 0, fs |-> f]
        ELSE IF Rejected(cfg, f) THEN [exit |-> 1, fs |-> f]
        ELSE IF Dest(cfg) = "" THEN [exit |-> 0, fs |-> f]
        ELSE IF ~CanCreate(d, Dest(cfg)) THEN [exit |-> 1, fs |-> f]
        ELSE [exit |-> 0, fs |-> Store(f, Dest(cfg), Output(cfg, f))]

----------------------------------------------------------------------------
(* test.cpp: the readers and the comparison.                               *)

readBinaryFile(f, fileName) == IF Exists(f, fileName) THEN f[fileName] ELSE <<>>

\* The pieces getline yields: the text before each LF, then the rest of the
\* file, which ends at end-of-file instead of at a delimiter.
RECURSIVE GetLines(_)
GetLines(s) ==
    IF s = <<>> THEN <<>>
    ELSE LET k == CHOOSE n \in 0..Len(s) :
                      /\ \A i \in 1..n : s[i] # LF
                      /\ (n = Len(s) \/ s[n + 1] = LF)
         IN  IF k = Len(s)
             THEN <<[text |-> s, eof |-> TRUE]>>
             ELSE <<[text |-> SubSeq(s, 1, k), eof |-> FALSE]>> \o GetLines(Drop(s, k + 1))

SelectLines(ps) ==
    LET keep == {i \in 1..Len(ps) : ~ps[i].eof /\ Len(ps[i].text) > 0}
        Nth(n) == CHOOSE i \in keep : Cardinality({j \in keep : j <= i}) = n
    IN  [n \in 1..Cardinality(keep) |-> ps[Nth(n)].text]

readTextFile(f, fileName) ==
    IF Exists(f, fileName) THEN SelectLines(GetLines(f[fileName])) ELSE <<>>

ReadWith(reader, f, fileName) ==
    IF reader = "text" THEN readTextFile(f, fileName) ELSE readBinaryFile(f, fileName)

\* std::equal(expected.begin(), expected.end(), output.begin()): the results it
\* can give. It stops at the first mismatch; when output is the shorter and a
\* prefix of expected, it reads past the end of output, which is undefined:
\* it returns either value or the program is killed (a vector that was never
\* filled has a null begin()).
StdEqual(expected, output) ==
    IF \E i \in 1..Len(expected) : i <= Len(output) /\ expected[i] # output[i]
    THEN {"false"}
    ELSE IF Len(expected) <= Len(output) THEN {"true"} ELSE {"true", "false", "crash"}

----------------------------------------------------------------------------
(* test.cpp: the unit tests.                                               *)

\* One command of a unit test: the arguments of tfc, and whether REQUIRE
\* wants its exit status to be 0.
Cmd(argv, zero) == [argv |-> argv, zero |-> zero]

\* A unit test of a fixture that has tfc write beside its input.
FixtureTest_beside(flags, inName, outName, reader) ==
    [cmds |-> <<Cmd(flags \o <<"-i", inputDir \o inName, "-o", inputDir \o outName>>, TRUE)>>,
     reader |-> reader,
     expected |-> expectedDir \o outName,
     output |-> inputDir \o outName]

\* The unit test of a fixture: tfc <flags> -i input -o output, REQUIRE exit 0,
\* then the expected and the output file are read and compared.
FixtureTest(flags, inName, outName, reader) ==
    [cmds |-> <<Cmd(flags \o <<"-i", inputDir \o inName, "-o", outputDir \o outName>>, TRUE)>>,
     reader |-> reader,
     expected |-> expectedDir \o outName,
     output |-> outputDir \o outName]

\* The four unit tests testN<postfix> of one section, N = 1..4.
Section(flags, postfix) ==
    [n \in 1..4 |->
        LET stem == <<"/test1", "/test2", "/test3", "/test4">>[n]
        IN  FixtureTest(flags, stem \o ".txt", stem \o postfix \o ".txt", "binary")]

\* A unit test that only runs commands.
OptionTest(cmds) == [cmds |-> cmds, reader |-> "none", expected |-> "", output |-> ""]

\* test.cpp 165-169: REQUIRE(system(NULL) != 0)
test0 == OptionTest(<<>>)

\* test.cpp 177-239: test1..test4
summarySection == Section(<<"-x">>, "")

\* test.cpp 247-309: test1s..test4s
spaceSection == Section(<<"-s">>, "s")

\* test.cpp 317-379: test1t..test4t
tabSection == Section(<<"-t">>, "t")

\* test.cpp 387-449: test1d..test4d
dosSection == Section(<<"-d">>, "d")

\* test.cpp 457-519: test1u..test4u
unixSection == Section(<<"-u">>, "u")

\* test.cpp 527-589: test1sd..test4sd
spaceDosSection == Section(<<"-s", "-d">>, "sd")

\* test.cpp 597-659: test1td..test4td
tabDosSection == Section(<<"-t", "-d">>, "td")

\* test.cpp 667-729: test1su..test4su
spaceUnixSection == Section(<<"-s", "-u">>, "su")

\* test.cpp 737-799: test1tu..test4tu
tabUnixSection == Section(<<"-t", "-u">>, "tu")

\* test.cpp 807-853: testSpace2, testSpace4, testSpace8
spaceToTabSection ==
    <<FixtureTest(<<"-t", "-2">>, "/testSpace.txt", "/testSpace2.txt", "text"),
      FixtureTest(<<"-t", "-4">>, "/testSpace.txt", "/testSpace4.txt", "text"),
      FixtureTest(<<"-t", "-8">>, "/testSpace.txt", "/testSpace8.txt", "text")>>

\* test.cpp 861-907: testTab2, testTab4, testTab8
tabToSpaceSection ==
    <<FixtureTest(<<"-s", "-2">>, "/testTab.txt", "/testTab2.txt", "text"),
      FixtureTest(<<"-s", "-4">>, "/testTab.txt", "/testTab4.txt", "text"),
      FixtureTest(<<"-s", "-8">>, "/testTab.txt", "/testTab8.txt", "text")>>

\* testOptions0..testOptions8 with testOptions5 requiring exit code 0 of
\* --replace without a conversion.
optionsSection_summary ==
    LET input == inputDir \o "/testOptions.txt"
        output == outputDir \o "/testOptions.txt"
        overwrite == outputDir \o "/testOverwrite.txt"
    IN  <<OptionTest(<<Cmd(<<"-z">>, FALSE)>>),
          OptionTest(<<Cmd(<<"-h">>, TRUE), Cmd(<<"--help">>, TRUE)>>),
          OptionTest(<<Cmd(<<"-v">>, TRUE), Cmd(<<"--version">>, TRUE)>>),
          OptionTest(<<Cmd(<<"-i">>, FALSE)>>),
          OptionTest(<<Cmd(<<"-i", "zxcv">>, FALSE)>>),
          OptionTest(<<Cmd(<<"-r", input>>, FALSE), Cmd(<<"--replace", input>>, TRUE)>>),
          OptionTest(<<Cmd(<<"--space", "--input", input, "--output", input>>, FALSE)>>),
          OptionTest(<<Cmd(<<"--tab", "-i", input, "-o", output>>, TRUE),
                       Cmd(<<"--space", "-i", input, "-o", output>>, TRUE)>>),
          OptionTest(<<Cmd(<<"--dos", "-i", input, "-o", overwrite>>, TRUE),
                       Cmd(<<"--unix", "-r", overwrite>>, TRUE),
                       Cmd(<<"--dos", "--replace", overwrite>>, TRUE)>>)>>

\* testOptions0..testOptions8 with testOptions0 requiring exit code 0.
optionsSection_lax ==
    LET input == inputDir \o "/testOptions.txt"
        output == outputDir \o "/testOptions.txt"
        overwrite == outputDir \o "/testOverwrite.txt"
    IN  <<OptionTest(<<Cmd(<<"-z">>, TRUE)>>),
          OptionTest(<<Cmd(<<"-h">>, TRUE), Cmd(<<"--help">>, TRUE)>>),
          OptionTest(<<Cmd(<<"-v">>, TRUE), Cmd(<<"--version">>, TRUE)>>),
          OptionTest(<<Cmd(<<"-i">>, FALSE)>>),
          OptionTest(<<Cmd(<<"-i", "zxcv">>, FALSE)>>),
          OptionTest(<<Cmd(<<"-r", input>>, FALSE), Cmd(<<"--replace", input>>, FALSE)>>),
          OptionTest(<<Cmd(<<"--space", "--input", input, "--output", input>>, FALSE)>>),
          OptionTest(<<Cmd(<<"--tab", "-i", input, "-o", output>>, TRUE),
                       Cmd(<<"--space", "-i", input, "-o", output>>, TRUE)>>),
          OptionTest(<<Cmd(<<"--dos", "-i", input, "-o", overwrite>>, TRUE),
                       Cmd(<<"--unix", "-r", overwrite>>, TRUE),
                       Cmd(<<"--dos", "--replace", overwrite>>, TRUE)>>)>>

\* test.cpp 915-1007: testOptions0..testOptions8
optionsSection ==
    LET input == inputDir \o "/testOptions.txt"
        output == outputDir \o "/testOptions.txt"
        overwrite == outputDir \o "/testOverwrite.txt"
    IN  <<OptionTest(<<Cmd(<<"-z">>, FALSE)>>),
          OptionTest(<<Cmd(<<"-h">>, TRUE), Cmd(<<"--help">>, TRUE)>>),
          OptionTest(<<Cmd(<<"-v">>, TRUE), Cmd(<<"--version">>, TRUE)>>),
          OptionTest(<<Cmd(<<"-i">>, FALSE)>>),
          OptionTest(<<Cmd(<<"-i", "zxcv">>, FALSE)>>),
          OptionTest(<<Cmd(<<"-r", input>>, FALSE), Cmd(<<"--replace", input>>, FALSE)>>),
          OptionTest(<<Cmd(<<"--space", "--input", input, "--output", input>>, FALSE)>>),
          OptionTest(<<Cmd(<<"--tab", "-i", input, "-o", output>>, TRUE),
                       Cmd(<<"--space", "-i", input, "-o", output>>, TRUE)>>),
          OptionTest(<<Cmd(<<"--dos", "-i", input, "-o", overwrite>>, TRUE),
                       Cmd(<<"--unix", "-r", overwrite>>, TRUE),
                       Cmd(<<"--dos", "--replace", overwrite>>, TRUE)>>)>>

\* test.cpp 1010-1066: the unit tests in the order RUN_TEST runs them.
runTests ==
    <<test0>> \o summarySection \o spaceSection \o tabSection \o dosSection
        \o unixSection \o spaceDosSection \o tabDosSection \o spaceUnixSection
        \o tabUnixSection \o spaceToTabSection \o tabToSpaceSection \o optionsSection

----------------------------------------------------------------------------
(* The tfc command on its own: a file of a few bytes is put through a      *)
(* pipeline of two commands, a.txt -> b.txt -> c.txt.                      *)

CliFiles == <<"a.txt", "b.txt", "c.txt">>

CliBytes == {SP, TAB, LetterH, CR, LF}

\* Files of at most MaxFile bytes whose last line is terminated.
RECURSIVE SeqsUpTo(_, _)
SeqsUpTo(S, n) ==
    IF n = 0 THEN {<<>>}
    ELSE LET shorter == SeqsUpTo(S, n - 1)
         IN  shorter \cup {Append(s, b) : s \in {t \in shorter : Len(t) = n - 1}, b \in S}

CliInputs == {s \in SeqsUpTo(CliBytes, MaxFile) : s = <<>> \/ IsEol(s[Len(s)])}

IndentFlags == {<<>>, <<"-s">>, <<"-t">>}
WidthFlags == {<<>>, <<"-2">>, <<"-4">>, <<"-8">>}
EolFlags == {<<>>, <<"-d">>, <<"-u">>}

CliFlags ==
    {<<"-x">>} \cup
    {i \o w \o e : i \in IndentFlags \ {<<>>}, w \in WidthFlags, e \in EolFlags}
    \cup {e : e \in EolFlags \ {<<>>}}

EmptyFs == [p \in {} |-> <<>>]

----------------------------------------------------------------------------
(* The tfc command on its own: a session of commands on a.txt and b.txt,   *)
(* with the options and the mistakes of testOptions0..testOptions8.        *)

\* The most commands in a session.
MaxSession == 2

\* A path that names no file, as in testOptions4.
NoFile == "zxcv"

SessionInputs == {summaryTests_test1, summaryTests_test2, summaryTests_test3, summaryTests_test4}

\* The command lines of testOptions0..testOptions8, with a.txt in the place of
\* input/testOptions.txt and b.txt in the place of the output files.
SessionCommands ==
    {<<"-z">>,
     <<"-h">>, <<"--help">>,
     <<"-v">>, <<"--version">>,
     <<"-i">>,
     <<"-i", NoFile>>,
     <<"-r", CliFiles[1]>>, <<"--replace", CliFiles[1]>>,
     <<"--space", "--input", CliFiles[1], "--output", CliFiles[1]>>,
     <<"--tab", "-i", CliFiles[1], "-o", CliFiles[2]>>,
     <<"--space", "-i", CliFiles[1], "-o", CliFiles[2]>>,
     <<"--dos", "-i", CliFiles[1], "-o", CliFiles[2]>>,
     <<"--unix", "-r", CliFiles[2]>>,
     <<"--dos", "--replace", CliFiles[2]>>}

ConvertFlags == {<<"-s">>, <<"-t">>, <<"-d">>, <<"-u">>}

\* Command lines a user types that no unit test issues: a missing value, a
\* summary, -r with -o, and the conversions of a.txt in place.
HandCommands ==
    {<<"-s", "-i", CliFiles[1], "-o">>,
     <<"-x", "-i", CliFiles[1], "-o", CliFiles[2]>>,
     <<"-d", "-r", CliFiles[1], "-o", CliFiles[2]>>}
    \cup {c \o <<"-r", CliFiles[1]>> : c \in ConvertFlags}

----------------------------------------------------------------------------
(* BinaryFile.h and TextFile.h: an object holds a file name and a buffer,  *)
(* a sequence of bytes in a BinaryFile and of lines in a TextFile.         *)

NUL == 0

\* The most bytes of a file, and the most lines of a buffer, a client of the
\* two classes starts from.
MaxData == 2

\* The most successful reads of one object.
MaxReads == 2

\* The most calls the client makes on its object.
MaxCalls == 3

\* BinaryFile::equal(other)
BinaryFile_equal(data, other) ==
    IF Len(data) # Len(other) THEN {"false"} ELSE StdEqual(data, other)

\* BinaryFile::equal(other, count): the first count elements of the buffer
\* against other, with no look at either size. A count beyond the buffer, like
\* an other that is too short, is a read past the end.
BinaryFile_equal_count(data, other, count) ==
    IF count <= Len(data)
    THEN StdEqual(SubSeq(data, 1, count), other)
    ELSE IF \E i \in 1..Len(data) : i <= Len(other) /\ data[i] # other[i]
         THEN {"false"}
         ELSE {"true", "false", "crash"}

\* An equal that compares the line counts first.
TextFile_equal_sized(data, other) ==
    IF Len(data) # Len(other) THEN {"false"} ELSE StdEqual(data, other)

\* TextFile::equal(other)
TextFile_equal(data, other) == StdEqual(data, other)

\* BinaryFile::write(void)
BinaryFile_write(data, fileName, f, d) ==
    IF CanCreate(d, fileName)
    THEN [ret |-> 0, fs |-> Store(f, fileName, data)]
    ELSE [ret |-> 1, fs |-> f]

\* A write that does not test its stream.
TextFile_write_silent(data, fileName, f, d) ==
    [ret |-> 0, fs |-> IF CanCreate(d, fileName) THEN Store(f, fileName, TextBytes(data)) ELSE f]

\* TextFile::write(void)
TextFile_write(data, fileName, f, d) ==
    IF CanCreate(d, fileName)
    THEN [ret |-> 0, fs |-> Store(f, fileName, TextBytes(data))]
    ELSE [ret |-> 1, fs |-> f]

\* A read in text mode on a system that translates CR LF to LF.
BinaryFile_read_text(data, fileName, f) ==
    IF Exists(f, fileName)
    THEN [ret |-> 0, data |-> data \o SelectSeq(f[fileName], LAMBDA c : c # CR)]
    ELSE [ret |-> 1, data |-> data]

\* BinaryFile::read
BinaryFile_read(data, fileName, f) ==
    IF Exists(f, fileName)
    THEN [ret |-> 0, data |-> data \o f[fileName]]
    ELSE [ret |-> 1, data |-> data]

\* line.substr(0, line.find_first_of(tokens)): the line up to its first CR,
\* LF or NUL.
CutAtToken(line) ==
    LET tokens == {CR, LF, NUL}
        pos == CHOOSE n \in 0..Len(line) :
                   /\ \A i \in 1..n : line[i] \notin tokens
                   /\ (n = Len(line) \/ line[n + 1] \in tokens)
    IN  SubSeq(line, 1, pos)

\* A read that clears the buffer before it fills it.
TextFile_read_fresh(data, fileName, f) ==
    IF Exists(f, fileName)
    THEN LET ps == GetLines(f[fileName])
             cut == [i \in 1..Len(ps) |->
                        [text |-> CutAtToken(ps[i].text), eof |-> ps[i].eof]]
         IN  [ret |-> 0, data |-> SelectLines(cut)]
    ELSE [ret |-> 1, data |-> data]

\* TextFile::read
TextFile_read(data, fileName, f) ==
    IF Exists(f, fileName)
    THEN LET ps == GetLines(f[fileName])
             cut == [i \in 1..Len(ps) |->
                        [text |-> CutAtToken(ps[i].text), eof |-> ps[i].eof]]
         IN  [ret |-> 0, data |-> data \o SelectLines(cut)]
    ELSE [ret |-> 1, data |-> data]

Kinds == {"binary", "text"}

FileWrite(kind, data, fileName, f, d) ==
    IF kind = "binary" THEN BinaryFile_write(data, fileName, f, d)
    ELSE TextFile_write(data, fileName, f, d)

FileRead(kind, data, fileName, f) ==
    IF kind = "binary" THEN BinaryFile_read(data, fileName, f)
    ELSE TextFile_read(data, fileName, f)

FileEqual(kind, data, other) ==
    IF kind = "binary" THEN BinaryFile_equal(data, other) ELSE TextFile_equal(data, other)

\* No object: the programs that use none.
NoObject ==
    [kind |-> "none", fileName |-> "", data |-> <<>>, prev |-> <<>>, op |-> "none",
     ret |-> 0, same |-> "none", other |-> <<>>, reads |-> 0, calls |-> 0,
     wrote |-> [done |-> FALSE, data |-> <<>>]]

\* BinaryFile(file), TextFile(file)
NewObject(kind, file) == [NoObject EXCEPT !.kind = kind, !.fileName = file, !.op = "new"]

\* The client of the two classes: the bytes of its files, the buffers it hands over,
\* and its paths, one of them in a directory that does not exist.
LibBytes == {NUL, LF, CR, LetterH}
LibFiles == UNION {[1..n -> LibBytes] : n \in 0..MaxData}
LibPaths == {CliFiles[1], outputDir \o "/test1.txt"}

\* The buffers the client hands to write(other), setData, load and operator=.
Loads(kind) ==
    IF kind = "binary"
    THEN {<<>>, <<LetterH>>, <<LF>>, <<NUL, CR>>, <<CR, LF>>, <<LetterH, LF>>}
    ELSE {<<>>, <<<<>>>>, <<<<LetterH>>>>, <<<<>>, <<LetterH>>>>,
          <<<<LetterH>>, <<SP, LetterH>>>>}

\* The buffers the client compares an object with: the buffer itself, one
\* element more, one element less, and the last element changed.
Others(kind, data) ==
    LET x == IF kind = "binary" THEN LetterH ELSE <<LetterH>>
        y == IF kind = "binary" THEN NUL ELSE <<SP, LetterH>>
        front == SubSeq(data, 1, Len(data) - 1)
    IN  {data, Append(data, x), <<>>}
            \cup (IF data = <<>> THEN {} ELSE {front, Append(front, x), Append(front, y)})

----------------------------------------------------------------------------
(* The state machine.                                                      *)

\* Before the program starts, testdata may be left over from an earlier run.
StaleFs ==
    {EmptyFs,
     [p \in {outputDir \o "/test1.txt"} |-> <<LetterH, LF>>],
     [p \in {expectedDir \o "/test1s.txt", inputDir \o "/testOptions.txt"} |-> <<LetterH, LF>>]}

\* The programs: "main", the main of test.cpp as the sources stand; "init", the
\* program test.cpp is written to be, gen.cpp's init(argc, argv) and then
\* runTests; "cli" and "session", tfc run by hand.
Init ==
    /\ commands = <<>>
    /\ statuses = <<>>
    /\ failed = {}
    /\ testIdx = 0
    /\ cmdIdx = 0
    /\ obj = NoObject
    /\ \/ /\ pc = "main"
          /\ fs \in StaleFs
          /\ dirs = IF fs = EmptyFs THEN {} ELSE TestDirs
          /\ onFail = "stop"
       \/ /\ pc = "init"
          /\ fs \in StaleFs
          /\ dirs = IF fs = EmptyFs THEN {} ELSE TestDirs
          /\ onFail \in {"stop", "goOn"}
       \/ /\ pc = "cli"
          /\ \E data \in CliInputs : fs = [p \in {CliFiles[1]} |-> data]
          /\ dirs = {}
          /\ onFail = "stop"
       \/ /\ pc = "session"
          /\ \E data \in SessionInputs : fs = [p \in {CliFiles[1]} |-> data]
          /\ dirs = {}
          /\ onFail = "stop"
    /\ before = fs

Gen4(f, d, postfix, t1, t2, t3, t4) ==
    LET f1 == writeBinaryFile(f, d, expectedDir \o "/test1" \o postfix \o ".txt", t1)
        f2 == writeBinaryFile(f1, d, expectedDir \o "/test2" \o postfix \o ".txt", t2)
        f3 == writeBinaryFile(f2, d, expectedDir \o "/test3" \o postfix \o ".txt", t3)
    IN  writeBinaryFile(f3, d, expectedDir \o "/test4" \o postfix \o ".txt", t4)

GenStep(from, to, newFs) ==
    /\ pc = from
    /\ pc' = to
    /\ fs' = newFs
    /\ UNCHANGED <<dirs, testIdx, cmdIdx, commands, statuses, failed, before, obj, onFail>>

\* test.cpp main: it calls init(), declared `extern int init(void)`; gen.cpp
\* defines init(int argc, char *argv[]), another function, so the reference has
\* no definition, the link fails and there is no program to run.
LinkFails ==
    /\ pc = "main"
    /\ pc' = "nolink"
    /\ UNCHANGED <<dirs, fs, testIdx, cmdIdx, commands, statuses, failed, before, obj, onFail>>

\* gen.cpp init(argc, argv), called with its own parameters: the directories.
InitDirs ==
    /\ pc = "init"
    /\ pc' = "summaryTests"
    /\ fs' = RemoveAll(fs)
    /\ dirs' = TestDirs
    /\ UNCHANGED <<testIdx, cmdIdx, commands, statuses, failed, before, obj, onFail>>

SummaryOne(f, d, name, data, line2) ==
    writeSummaryFile(writeBinaryFile(f, d, inputDir \o name, data), d,
                     expectedDir \o name, PathBytes(inputDir \o name), line2)

summaryTests ==
    GenStep("summaryTests", "spaceTests",
        SummaryOne(SummaryOne(SummaryOne(SummaryOne(fs, dirs,
            "/test1.txt", summaryTests_test1, summaryTests_summary1), dirs,
            "/test2.txt", summaryTests_test2, summaryTests_summary2), dirs,
            "/test3.txt", summaryTests_test3, summaryTests_summary3), dirs,
            "/test4.txt", summaryTests_test4, summaryTests_summary4))

spaceTests ==
    GenStep("spaceTests", "tabTests",
        Gen4(fs, dirs, "s", spaceTests_test1, spaceTests_test2, spaceTests_test3, spaceTests_test4))

tabTests ==
    GenStep("tabTests", "dosTests",
        Gen4(fs, dirs, "t", tabTests_test1, tabTests_test2, tabTests_test3, tabTests_test4))

dosTests ==
    GenStep("dosTests", "unixTests",
        Gen4(fs, dirs, "d", dosTests_test1, dosTests_test2, dosTests_test3, dosTests_test4))

unixTests ==
    GenStep("unixTests", "spaceDosTests",
        Gen4(fs, dirs, "u", unixTests_test1, unixTests_test2, unixTests_test3, unixTests_test4))

spaceDosTests ==
    GenStep("spaceDosTests", "tabDosTests",
        Gen4(fs, dirs, "sd", spaceDosTests_test1, spaceDosTests_test2,
             spaceDosTests_test3, spaceDosTests_test4))

tabDosTests ==
    GenStep("tabDosTests", "spaceUnixTests",
        Gen4(fs, dirs, "td", tabDosTests_test1, tabDosTests_test2,
             tabDosTests_test3, tabDosTests_test4))

spaceUnixTests ==
    GenStep("spaceUnixTests", "tabUnixTests",
        Gen4(fs, dirs, "su", spaceUnixTests_test1, spaceUnixTests_test2,
             spaceUnixTests_test3, spaceUnixTests_test4))

tabUnixTests ==
    GenStep("tabUnixTests", "spaceToTabTests",
        Gen4(fs, dirs, "tu", tabUnixTests_test1, tabUnixTests_test2,
             tabUnixTests_test3, tabUnixTests_test4))

GenText4(f, d, stem, input, out2, out4, out8) ==
    LET f1 == writeTextFile(f, d, inputDir \o stem \o ".txt", input)
        f2 == writeTextFile(f1, d, expectedDir \o stem \o "2" \o ".txt", out2)
        f3 == writeTextFile(f2, d, expectedDir \o stem \o "4" \o ".txt", out4)
    IN  writeTextFile(f3, d, expectedDir \o stem \o "8" \o ".txt", out8)

spaceToTabTests ==
    GenStep("spaceToTabTests", "tabToSpaceTests",
        GenText4(fs, dirs, "/testSpace", spaceToTabTests_testSpace, spaceToTabTests_testSpace2,
                 spaceToTabTests_testSpace4, spaceToTabTests_testSpace8))

tabToSpaceTests ==
    GenStep("tabToSpaceTests", "optionsTests",
        GenText4(fs, dirs, "/testTab", tabToSpaceTests_testTab, tabToSpaceTests_testTab2,
                 tabToSpaceTests_testTab4, tabToSpaceTests_testTab8))

optionsTests ==
    /\ pc = "optionsTests"
    /\ pc' = "runTests"
    /\ fs' = writeTextFile(fs, dirs, inputDir \o "/testOptions.txt", optionsTests_testOptions)
    /\ testIdx' = 1
    /\ UNCHANGED <<dirs, cmdIdx, commands, statuses, failed, before, obj, onFail>>

\* The run of one command: system(command), recorded in commands.
Run(argv) ==
    LET r == Tfc(argv, fs, dirs)
    IN  /\ commands' = Append(commands, argv)
        /\ statuses' = Append(statuses, r.exit)
        /\ before' = fs
        /\ fs' = r.fs

NextTest ==
    /\ testIdx' = testIdx + 1
    /\ cmdIdx' = 0

Running == pc = "runTests" /\ testIdx <= Len(runTests)

\* A REQUIRE whose condition is false: the unit test has failed, and it ends
\* there or goes on with its next statement.
FailedRequire ==
    /\ failed' = failed \cup {testIdx}
    /\ IF onFail = "stop"
       THEN NextTest
       ELSE cmdIdx' = cmdIdx + 1 /\ testIdx' = testIdx

\* REQUIRE(execute(command) == 0) or REQUIRE(execute(command) != 0)
Execute ==
    /\ Running
    /\ cmdIdx < Len(runTests[testIdx].cmds)
    /\ LET c == runTests[testIdx].cmds[cmdIdx + 1]
           ok == (Tfc(c.argv, fs, dirs).exit = 0) = c.zero
       IN  /\ Run(c.argv)
           /\ IF ok
              THEN /\ cmdIdx' = cmdIdx + 1
                   /\ UNCHANGED <<testIdx, failed>>
              ELSE FailedRequire
    /\ UNCHANGED <<dirs, pc, obj, onFail>>

\* The read of the expected and the output file and REQUIRE(std::equal(...)),
\* the last statement of the unit test; the program is killed when std::equal
\* reads where there is nothing.
Compare ==
    /\ Running
    /\ cmdIdx = Len(runTests[testIdx].cmds)
    /\ runTests[testIdx].reader # "none"
    /\ LET t == runTests[testIdx]
           expected == ReadWith(t.reader, fs, t.expected)
           output == ReadWith(t.reader, fs, t.output)
       IN  \E same \in StdEqual(expected, output) :
               IF same = "crash"
               THEN /\ pc' = "crashed"
                    /\ UNCHANGED <<testIdx, cmdIdx, failed>>
               ELSE /\ failed' = IF same = "true" THEN failed ELSE failed \cup {testIdx}
                    /\ NextTest
                    /\ UNCHANGED pc
    /\ UNCHANGED <<dirs, fs, commands, statuses, before, obj, onFail>>

\* END_TEST of a unit test that compares no files.
EndTest ==
    /\ Running
    /\ cmdIdx = Len(runTests[testIdx].cmds)
    /\ runTests[testIdx].reader = "none"
    /\ NextTest
    /\ UNCHANGED <<dirs, fs, pc, commands, statuses, failed, before, obj, onFail>>

\* runTests returns.
Finished ==
    /\ pc = "runTests"
    /\ testIdx > Len(runTests)
    /\ pc' = "done"
    /\ UNCHANGED <<dirs, fs, testIdx, cmdIdx, commands, statuses, failed, before, obj, onFail>>

\* tfc run by hand on the file the previous step left.
CliRun ==
    /\ pc = "cli"
    /\ Len(commands) < Len(CliFiles) - 1
    /\ \E flags \in CliFlags :
           Run(flags \o <<"-i", CliFiles[Len(commands) + 1],
                          "-o", CliFiles[Len(commands) + 2]>>)
    /\ UNCHANGED <<dirs, pc, testIdx, cmdIdx, failed, obj, onFail>>

\* tfc run by hand with one of the session's command lines.
SessionRun ==
    /\ pc = "session"
    /\ Len(commands) < MaxSession
    /\ \E argv \in SessionCommands \cup HandCommands : Run(argv)
    /\ UNCHANGED <<dirs, pc, testIdx, cmdIdx, failed, obj, onFail>>

Next ==
    \/ LinkFails
    \/ InitDirs
    \/ summaryTests
    \/ spaceTests
    \/ tabTests
    \/ dosTests
    \/ unixTests
    \/ spaceDosTests
    \/ tabDosTests
    \/ spaceUnixTests
    \/ tabUnixTests
    \/ spaceToTabTests
    \/ tabToSpaceTests
    \/ optionsTests
    \/ Execute
    \/ Compare
    \/ EndTest
    \/ Finished
    \/ CliRun
    \/ SessionRun

Spec == Init /\ [][Next]_vars

----------------------------------------------------------------------------
(* A client of BinaryFile and TextFile: it constructs one object on a path *)
(* and calls its methods.                                                  *)

LibInit ==
    /\ commands = <<>>
    /\ statuses = <<>>
    /\ failed = {}
    /\ testIdx = 0
    /\ cmdIdx = 0
    /\ pc = "lib"
    /\ onFail = "stop"
    /\ dirs = {}
    /\ \E kind \in Kinds, file \in LibPaths :
           /\ obj = NewObject(kind, file)
           /\ fs \in {EmptyFs} \cup {[p \in {file} \cap {CliFiles[1]} |-> data] : data \in LibFiles}
    /\ before = fs

\* A call of a method: what it leaves in the object, the result of the call
\* included.
CallOn(fileName, op, data, prev, ret, other, same, reads, wrote) ==
    /\ pc = "lib"
    /\ obj.calls < MaxCalls
    /\ pc' = IF same = "crash" THEN "crashed" ELSE pc
    /\ obj' = [kind |-> obj.kind, fileName |-> fileName, data |-> data, prev |-> prev,
               op |-> op, ret |-> ret, same |-> same, other |-> other, reads |-> reads,
               calls |-> obj.calls + 1, wrote |-> wrote]
    /\ before' = fs
    /\ UNCHANGED <<dirs, testIdx, cmdIdx, commands, statuses, failed, onFail>>

Call(op, data, prev, ret, other, same, reads, wrote) ==
    CallOn(obj.fileName, op, data, prev, ret, other, same, reads, wrote)

\* write(void)
Write ==
    LET r == FileWrite(obj.kind, obj.data, obj.fileName, fs, dirs)
    IN  /\ fs' = r.fs
        /\ Call("write", obj.data, obj.data, r.ret, <<>>, "none", obj.reads,
                IF r.ret = 0 THEN [done |-> TRUE, data |-> obj.data] ELSE obj.wrote)

\* write(other): setData(other) or load(other), then write()
WriteOther ==
    \E other \in Loads(obj.kind) :
        LET r == FileWrite(obj.kind, other, obj.fileName, fs, dirs)
        IN  /\ fs' = r.fs
            /\ Call("writeOther", other, other, r.ret, <<>>, "none", obj.reads,
                    IF r.ret = 0 THEN [done |-> TRUE, data |-> other] ELSE obj.wrote)

\* read()
Read ==
    /\ obj.reads < MaxReads
    /\ LET r == FileRead(obj.kind, obj.data, obj.fileName, fs)
       IN  Call("read", r.data, obj.data, r.ret, <<>>, "none",
                IF r.ret = 0 THEN obj.reads + 1 ELSE obj.reads, obj.wrote)
    /\ UNCHANGED fs

\* clear()
Clear ==
    /\ Call("clear", <<>>, <<>>, 0, <<>>, "none", obj.reads, obj.wrote)
    /\ UNCHANGED fs

\* equal(other)
Equal ==
    /\ \E other \in Others(obj.kind, obj.data) :
           \E same \in FileEqual(obj.kind, obj.data, other) :
               Call("equal", obj.data, obj.data, 0, other, same, obj.reads, obj.wrote)
    /\ UNCHANGED fs

\* equal(other, count) of a BinaryFile
EqualCount ==
    /\ obj.kind = "binary"
    /\ \E other \in Others(obj.kind, obj.data), count \in 0..MaxData :
           \E same \in BinaryFile_equal_count(obj.data, other, count) :
               Call("equalCount", obj.data, obj.data, 0, other, same, obj.reads, obj.wrote)
    /\ UNCHANGED fs

\* setData(other) and moveData(other) of a BinaryFile, load(other) of a TextFile
SetData ==
    /\ \E other \in Loads(obj.kind) :
           Call("setData", other, other, 0, <<>>, "none", obj.reads, obj.wrote)
    /\ UNCHANGED fs

\* moveData() of a BinaryFile: the buffer is moved out to the caller.
MoveData ==
    /\ obj.kind = "binary"
    /\ Call("moveData", <<>>, <<>>, 0, <<>>, "none", obj.reads, obj.wrote)
    /\ UNCHANGED fs

\* setFileName(file): the next write and the next read are of that file.
SetFileName ==
    /\ \E file \in LibPaths :
           CallOn(file, "setFileName", obj.data, obj.data, 0, <<>>, "none", obj.reads,
                  NoObject.wrote)
    /\ UNCHANGED fs

\* operator=(other), and the copy constructor with the copy in the place of
\* the object: the file name and the buffer of other.
Assign ==
    /\ \E file \in LibPaths, other \in Loads(obj.kind) :
           CallOn(file, "assign", other, other, 0, <<>>, "none", obj.reads, NoObject.wrote)
    /\ UNCHANGED fs

LibNext ==
    \/ Write
    \/ WriteOther
    \/ Read
    \/ Clear
    \/ Equal
    \/ EqualCount
    \/ SetData
    \/ MoveData
    \/ SetFileName
    \/ Assign

LibSpec == LibInit /\ [][LibNext]_vars

----------------------------------------------------------------------------
(* A unit test of a fixture run against a program that is installed as tfc *)
(* and may do anything: test1, which reads bytes, and testSpace2, which    *)
(* reads lines, each on the files gen.cpp writes for it.                   *)

TestOf(output) == CHOOSE i \in 1..Len(runTests) : runTests[i].output = output

HarnessStarts ==
    {[idx |-> TestOf(outputDir \o "/test1.txt"),
      fs  |-> SummaryOne(EmptyFs, TestDirs, "/test1.txt", summaryTests_test1,
                         summaryTests_summary1)],
     [idx |-> TestOf(outputDir \o "/testSpace2.txt"),
      fs  |-> GenText4(EmptyFs, TestDirs, "/testSpace", spaceToTabTests_testSpace,
                       spaceToTabTests_testSpace2, spaceToTabTests_testSpace4,
                       spaceToTabTests_testSpace8)]}

HarnessInit ==
    /\ commands = <<>>
    /\ statuses = <<>>
    /\ failed = {}
    /\ cmdIdx = 0
    /\ obj = NoObject
    /\ pc = "runTests"
    /\ onFail \in {"stop", "goOn"}
    /\ dirs = TestDirs
    /\ \E start \in HarnessStarts :
           /\ testIdx = start.idx
           /\ fs = start.fs
    /\ before = fs

\* What the program may leave in the output file: the expected bytes, any
\* part of them from the start, and the expected bytes with more after them or
\* with one byte of a line changed.
AnyOutputs(expected) ==
    {SubSeq(expected, 1, n) : n \in 0..Len(expected)}
        \cup {expected \o <<LetterH, LF>>}
        \cup {[expected EXCEPT ![n] = LetterH] : n \in {k \in 1..Len(expected) : expected[k] = SP}}

\* system(command) with any program as tfc: it exits with any status and
\* leaves the output file as it was or writes it.
ExecuteAny ==
    /\ Running
    /\ commands = <<>>
    /\ LET t == runTests[testIdx]
           c == t.cmds[1]
       IN  \E exit \in {0, 1} :
               /\ commands' = Append(commands, c.argv)
               /\ statuses' = Append(statuses, exit)
               /\ before' = fs
               /\ \/ fs' = fs
                  \/ \E data \in AnyOutputs(fs[t.expected]) : fs' = Store(fs, t.output, data)
               /\ IF (exit = 0) = c.zero
                  THEN /\ cmdIdx' = cmdIdx + 1
                       /\ UNCHANGED <<testIdx, failed>>
                  ELSE FailedRequire
    /\ UNCHANGED <<dirs, pc, obj, onFail>>

HarnessNext ==
    \/ ExecuteAny
    \/ Compare

HarnessSpec == HarnessInit /\ [][HarnessNext]_vars

----------------------------------------------------------------------------
(* One run of tfc, step by step: the command line and the paths are        *)
(* checked, the whole source is read into memory, and the output is made   *)
(* from what is in memory and written once. commands holds the command     *)
(* line, obj the buffer in memory, before the files as the run found them. *)

\* The files the run finds: a.txt, and b.txt absent or left by an earlier run.
RunInputs == CliInputs \cup SessionInputs
RunOlds == {<<LetterH, CR, LF>>, summaryTests_test3}

RunInit ==
    /\ pc = "tfc"
    /\ onFail = "stop"
    /\ dirs = {}
    /\ statuses = <<>>
    /\ failed = {}
    /\ testIdx = 0
    /\ cmdIdx = 0
    /\ obj = NoObject
    /\ \E argv \in SessionCommands \cup HandCommands : commands = <<argv>>
    /\ \E data \in RunInputs :
           \/ fs = [p \in {CliFiles[1]} |-> data]
           \/ \E old \in RunOlds :
                  fs = [p \in {CliFiles[1], CliFiles[2]} |->
                           IF p = CliFiles[1] THEN data ELSE old]
    /\ before = fs

\* The run ends with an exit status.
Exit(status) ==
    /\ pc' = "tfc.exit"
    /\ statuses' = <<status>>

\* A start that opens the destination for writing, which empties it, as soon
\* as the paths are accepted.
Start_opens ==
    /\ pc = "tfc"
    /\ LET cfg == Config(commands[1])
       IN  IF cfg.help /\ ~cfg.error THEN Exit(0) /\ UNCHANGED <<obj, fs>>
           ELSE IF Rejected(cfg, fs) THEN Exit(1) /\ UNCHANGED <<obj, fs>>
           ELSE /\ pc' = "tfc.read"
                /\ obj' = NewObject("binary", Source(cfg))
                /\ fs' = IF Dest(cfg) # "" /\ CanCreate(dirs, Dest(cfg))
                         THEN Store(fs, Dest(cfg), <<>>)
                         ELSE fs
                /\ UNCHANGED statuses
    /\ UNCHANGED <<dirs, testIdx, cmdIdx, commands, failed, before, onFail>>

\* The command line is parsed and the paths are checked; every error ends the
\* run before a file is touched.
Start ==
    /\ pc = "tfc"
    /\ LET cfg == Config(commands[1])
       IN  IF cfg.help /\ ~cfg.error THEN Exit(0) /\ UNCHANGED <<obj, fs>>
           ELSE IF Rejected(cfg, fs) THEN Exit(1) /\ UNCHANGED <<obj, fs>>
           ELSE /\ pc' = "tfc.read"
                /\ obj' = NewObject("binary", Source(cfg))
                /\ UNCHANGED <<statuses, fs>>
    /\ UNCHANGED <<dirs, testIdx, cmdIdx, commands, failed, before, onFail>>

\* The whole source is read into memory.
ReadInput ==
    /\ pc = "tfc.read"
    /\ pc' = "tfc.write"
    /\ obj' = [obj EXCEPT !.data = fs[obj.fileName], !.prev = obj.data, !.op = "read",
                          !.reads = @ + 1, !.calls = @ + 1]
    /\ UNCHANGED <<dirs, fs, testIdx, cmdIdx, commands, statuses, failed, before, onFail>>

\* The lines in memory are classified and converted, and the output is
\* written to the destination in one piece; a run without a destination writes
\* no file.
WriteOutput ==
    /\ pc = "tfc.write"
    /\ LET cfg == Config(commands[1])
           memory == [p \in {Source(cfg)} |-> obj.data]
           output == Output(cfg, memory)
       IN  IF Dest(cfg) = "" THEN Exit(0) /\ UNCHANGED <<obj, fs>>
           ELSE IF ~CanCreate(dirs, Dest(cfg)) THEN Exit(1) /\ UNCHANGED <<obj, fs>>
           ELSE /\ Exit(0)
                /\ fs' = Store(fs, Dest(cfg), output)
                /\ obj' = [obj EXCEPT !.prev = obj.data, !.op = "write", !.calls = @ + 1,
                                      !.wrote = [done |-> TRUE, data |-> output]]
    /\ UNCHANGED <<dirs, testIdx, cmdIdx, commands, failed, before, onFail>>

RunNext ==
    \/ Start
    \/ ReadInput
    \/ WriteOutput

RunSpec == RunInit /\ [][RunNext]_vars

----------------------------------------------------------------------------
(* The last command and what it read and wrote.                            *)

Ran == commands # <<>>
LastArgv == commands[Len(commands)]
LastCfg == Config(LastArgv)
LastExit == statuses[Len(statuses)]
Wrote == Ran /\ LastExit = 0 /\ ~LastCfg.help /\ Dest(LastCfg) # ""
LastInput == before[Source(LastCfg)]
LastOutput == fs[Dest(LastCfg)]

----------------------------------------------------------------------------
(* Reading the files back.                                                 *)

\* The pieces of s between the occurrences of sep.
RECURSIVE SplitOn(_, _)
SplitOn(s, sep) ==
    LET k == CHOOSE n \in 0..Len(s) :
                 /\ \A i \in 1..n : s[i] # sep
                 /\ (n = Len(s) \/ s[n + 1] = sep)
    IN  IF k = Len(s) THEN <<s>>
        ELSE <<SubSeq(s, 1, k)>> \o SplitOn(Drop(s, k + 1), sep)

RECURSIVE ParseDec(_)
ParseDec(ds) ==
    IF ds = <<>> THEN 0
    ELSE 10 * ParseDec(SubSeq(ds, 1, Len(ds) - 1)) + (ds[Len(ds)] - Zero)

\* The integers on the second line of a summary file.
SummaryNumbers(data) ==
    LET ls == SplitOn(data, LF)
    IN  IF Len(ls) < 2 THEN <<>>
        ELSE LET fields == SplitOn(ls[2], SP)
             IN  [i \in 1..Len(fields) |-> ParseDec(fields[i])]

\* The unit tests that compare an output file with a fixture, and for each the
\* configuration of its command, the input fixture and the expected fixture.
FixtureIdx == {i \in 1..Len(runTests) : runTests[i].reader # "none"}
TestCfg(i) == Config(runTests[i].cmds[1].argv)
TestInput(i) == fs[TestCfg(i).input]
TestExpected(i) == fs[runTests[i].expected]

\* The generator has written every fixture.
Generated == pc \in {"runTests", "done"}

\* P holds of every file tfc has just written and of every expected fixture.
OfEveryOutput(P(_, _, _)) ==
    /\ Wrote => P(LastCfg, LastInput, LastOutput)
    /\ Generated => \A i \in FixtureIdx : P(TestCfg(i), TestInput(i), TestExpected(i))

Count(ls, Test(_)) == Cardinality({i \in 1..Len(ls) : Test(ls[i])})

----------------------------------------------------------------------------
(* C1: the summary counts every line once on each axis.                    *)

SumsToTotal(cfg, in, out) ==
    ~Converting(cfg) =>
        LET n == SummaryNumbers(out)
        IN  /\ Len(n) = 8
            /\ n[1] = Len(Lines(in))
            /\ n[2] + n[3] + n[4] + n[5] = n[1]
            /\ n[6] + n[7] + n[8] = n[1]

\* C1: in every summary tfc writes and in every summary fixture, the four
\* leading-whitespace counts sum to the total line count, and so do the three
\* terminator counts.
C1_SummarySums == OfEveryOutput(SumsToTotal)

\* A summary of a file with lines of two leading kinds and two terminator kinds.
C1_Witness ==
    /\ Wrote
    /\ ~Converting(LastCfg)
    /\ LET n == SummaryNumbers(LastOutput)
       IN  /\ n[1] >= 2
           /\ Cardinality({i \in 2..5 : n[i] > 0}) >= 2
           /\ Cardinality({i \in 6..8 : n[i] > 0}) >= 2

----------------------------------------------------------------------------
(* C2: the terminator kinds.                                               *)

TerminatorCounts(cfg, in, out) ==
    ~Converting(cfg) =>
        LET n == SummaryNumbers(out)
            ls == Lines(in)
            IsCrLf(l) == l.term = <<CR, LF>>
            IsLf(l) == l.term = <<LF>>
            IsOther(l) == l.term \in {<<LF, CR>>, <<CR>>}
        IN  /\ n[6] = Count(ls, IsCrLf)
            /\ n[7] = Count(ls, IsLf)
            /\ n[8] = Count(ls, IsOther)

\* C2 as amended: a line counts as Dos when its terminator is CR LF, as Unix
\* when it is a lone LF, and as Malformed when it is LF CR or a lone CR; a
\* doubled sequence is not one terminator but two, each classified on its own.
C2_TerminatorKinds == OfEveryOutput(TerminatorCounts)

\* The runs of CR and LF bytes of a file, each as long as it can be.
RECURSIVE EolRuns(_)
EolRuns(s) ==
    IF s = <<>> THEN <<>>
    ELSE IF ~IsEol(s[1]) THEN EolRuns(Drop(s, BodyLen(s)))
    ELSE LET k == CHOOSE n \in 1..Len(s) :
                      /\ \A i \in 1..n : IsEol(s[i])
                      /\ (n = Len(s) \/ ~IsEol(s[n + 1]))
         IN  <<SubSeq(s, 1, k)>> \o EolRuns(Drop(s, k))

\* The kind of a whole run: every combination but CR LF and LF is Malformed.
RunKind(run) ==
    IF run = <<CR, LF>> THEN "Dos" ELSE IF run = <<LF>> THEN "Unix" ELSE "Malformed"

WholeRunCounts(cfg, in, out) ==
    ~Converting(cfg) =>
        LET n == SummaryNumbers(out)
            rs == EolRuns(in)
            Of(kind) == Cardinality({i \in 1..Len(rs) : RunKind(rs[i]) = kind})
        IN  /\ n[6] = Of("Dos")
            /\ n[7] = Of("Unix")
            /\ n[8] = Of("Malformed")

\* C2 as stated: in every expected summary of gen.cpp the Dos, Unix and
\* Malformed numbers count the terminators with a doubled sequence, like every
\* combination other than CR LF and a lone LF, taken as one Malformed one.
C2_Original ==
    Generated =>
        \A i \in FixtureIdx : WholeRunCounts(TestCfg(i), TestInput(i), TestExpected(i))

\* test1: tfc -x on input/test1.txt, which ends in CR LF CR LF, has written
\* the summary gen.cpp expects: nine Dos lines, the last of them empty, and no
\* Malformed one.
C2_Witness ==
    /\ Wrote
    /\ pc = "runTests"
    /\ ~Converting(LastCfg)
    /\ LastInput = summaryTests_test1
    /\ LastOutput = fs[expectedDir \o "/test1.txt"]
    /\ LET ls == Lines(LastInput)
           n == Len(ls)
       IN  /\ ls[n - 1].term = <<CR, LF>>
           /\ ls[n] = [lead |-> <<>>, body |-> <<>>, term |-> <<CR, LF>>]
    /\ EolRuns(LastInput)[Len(EolRuns(LastInput))] = <<CR, LF, CR, LF>>
    /\ SummaryNumbers(LastOutput)[6] = 9
    /\ SummaryNumbers(LastOutput)[8] = 0

----------------------------------------------------------------------------
(* C3: the leading-whitespace kinds.                                       *)

Has(lead, b) == \E i \in 1..Len(lead) : lead[i] = b

LeadingCounts(cfg, in, out) ==
    ~Converting(cfg) =>
        LET n == SummaryNumbers(out)
            ls == Lines(in)
            SpaceOnly(l) == Has(l.lead, SP) /\ ~Has(l.lead, TAB)
            TabOnly(l) == Has(l.lead, TAB) /\ ~Has(l.lead, SP)
            Neither(l) == l.lead = <<>>
            Both(l) == Has(l.lead, SP) /\ Has(l.lead, TAB)
        IN  /\ n[2] = Count(ls, SpaceOnly)
            /\ n[3] = Count(ls, TabOnly)
            /\ n[4] = Count(ls, Neither)
            /\ n[5] = Count(ls, Both)

\* C3: the summary counts a line as SpaceOnly, TabOnly, Both or Neither by the
\* spaces and tabs of its leading run, whatever their order; a blank line is
\* Neither and a line that is only a mixed run is Both.
C3_LeadingKinds == OfEveryOutput(LeadingCounts)

\* A summary of a file with a line that is nothing but a space and a tab.
C3_Witness ==
    /\ Wrote
    /\ ~Converting(LastCfg)
    /\ \E i \in 1..Len(Lines(LastInput)) :
           /\ Lines(LastInput)[i].lead \in {<<SP, TAB>>, <<TAB, SP>>}
           /\ Lines(LastInput)[i].body = <<>>
    /\ SummaryNumbers(LastOutput)[5] >= 1

----------------------------------------------------------------------------
(* C4: line-ending conversion.                                             *)

TargetTerm(eol) == IF eol = "dos" THEN <<CR, LF>> ELSE <<LF>>

UniformTerminators(cfg, in, out) ==
    (cfg.eol # "none" /\ cfg.indent = "none") =>
        LET li == Lines(in)
            lo == Lines(out)
        IN  /\ Len(lo) = Len(li)
            /\ \A i \in 1..Len(li) :
                   /\ lo[i].lead \o lo[i].body = li[i].lead \o li[i].body
                   /\ lo[i].term = TargetTerm(cfg.eol)
            /\ cfg.eol = "unix" => \A k \in 1..Len(out) : out[k] # CR
            /\ cfg.eol = "dos" =>
                   \A k \in 1..Len(out) :
                       /\ out[k] = LF => (k > 1 /\ out[k - 1] = CR)
                       /\ out[k] = CR => (k < Len(out) /\ out[k + 1] = LF)

\* C4: with -d every line of the output ends in CR LF and with -u in a single
\* LF, whatever its terminator was; the number of lines and the bytes of each
\* line before its terminator are those of the input.
C4_UniformTerminators == OfEveryOutput(UniformTerminators)

\* A -d run on a file with an LF CR line and a line of another kind.
C4_Witness ==
    /\ Wrote
    /\ LastCfg.eol = "dos"
    /\ LastCfg.indent = "none"
    /\ \E i, j \in 1..Len(Lines(LastInput)) :
           /\ Lines(LastInput)[i].term = <<LF, CR>>
           /\ Lines(LastInput)[j].term \in {<<LF>>, <<CR>>}

----------------------------------------------------------------------------
(* C5: to-space conversion.                                                *)

CountOf(lead, b) == Cardinality({i \in 1..Len(lead) : lead[i] = b})

RECURSIVE SumSeq(_)
SumSeq(ns) == IF ns = <<>> THEN 0 ELSE Head(ns) + SumSeq(Tail(ns))

\* The spaces that stand between position p of the run and the tab before it.
SpacesBefore(lead, p) ==
    LET tabs == {q \in 1..(p - 1) : lead[q] = TAB}
        last == IF tabs = {} THEN 0 ELSE CHOOSE q \in tabs : \A r \in tabs : r <= q
    IN  p - 1 - last

\* The spaces that take a tab at position p to the next multiple of W.
TabFill(lead, p, W) == W - (SpacesBefore(lead, p) % W)

SpacesFor(lead, W) ==
    SumSeq([p \in 1..Len(lead) |-> IF lead[p] = TAB THEN TabFill(lead, p, W) ELSE 1])

TabsFillToStop(cfg, in, out) ==
    LET li == Lines(in)
        lo == Lines(out)
    IN  cfg.indent = "space" =>
            /\ Len(lo) = Len(li)
            /\ \A i \in 1..Len(li) :
                   lo[i].lead = Rep(SP, SpacesFor(li[i].lead, Width(cfg)))

TabsBecomeWSpaces(cfg, in, out) ==
    LET li == Lines(in)
        lo == Lines(out)
    IN  cfg.indent = "space" =>
            /\ Len(lo) = Len(li)
            /\ \A i \in 1..Len(li) :
                   LET lead == li[i].lead
                   IN  lo[i].lead =
                           Rep(SP, CountOf(lead, SP) + CountOf(lead, TAB) * Width(cfg))

\* C5 as amended: with -s and width W every leading space stays one space and
\* every leading tab becomes the 1..W spaces that reach the next multiple of W,
\* that is W - (g mod W) spaces for a tab that follows g spaces.
C5_TabsFillToStop == OfEveryOutput(TabsFillToStop)

\* C5 as stated: in every expected file of a -s test a leading run of s spaces
\* and t tabs has become s + t*W spaces.
C5_Original ==
    Generated =>
        \A i \in FixtureIdx : TabsBecomeWSpaces(TestCfg(i), TestInput(i), TestExpected(i))

\* A -s run on a line where a space stands before a tab.
C5_Witness ==
    /\ Wrote
    /\ LastCfg.indent = "space"
    /\ \E i \in 1..Len(Lines(LastInput)) :
           LET lead == Lines(LastInput)[i].lead
           IN  /\ \E p \in 2..Len(lead) : lead[p] = TAB /\ lead[p - 1] = SP
               /\ Len(Lines(LastOutput)[i].lead)
                      < CountOf(lead, SP) + CountOf(lead, TAB) * Width(LastCfg)

----------------------------------------------------------------------------
(* C6: to-tab conversion of a run of spaces.                               *)

SpacesFold(cfg, in, out) ==
    LET li == Lines(in)
        lo == Lines(out)
    IN  cfg.indent = "tab" =>
            /\ Len(lo) = Len(li)
            /\ \A i \in 1..Len(li) :
                   LET lead == li[i].lead
                       n == Len(lead)
                       W == Width(cfg)
                   IN  ~Has(lead, TAB) =>
                           lo[i].lead = Rep(TAB, n \div W) \o Rep(SP, n % W)

\* C6: with -t and width W a leading run of n spaces becomes n div W tabs
\* followed by n mod W spaces; a run shorter than W is unchanged.
C6_SpacesFold == OfEveryOutput(SpacesFold)

\* A -t -8 run on a file with a line of 7 leading spaces, left as it is, and a
\* line of 9 leading spaces.
C6_Witness ==
    /\ Wrote
    /\ LastCfg.indent = "tab"
    /\ Width(LastCfg) = 8
    /\ \E i, j \in 1..Len(Lines(LastInput)) :
           /\ Lines(LastInput)[i].lead = Rep(SP, 7)
           /\ Lines(LastOutput)[i].lead = Rep(SP, 7)
           /\ Lines(LastInput)[j].lead = Rep(SP, 9)
           /\ Lines(LastOutput)[j].lead = <<TAB, SP>>

----------------------------------------------------------------------------
(* C7: to-tab conversion of a run that holds tabs.                         *)

\* The run with every group of W spaces folded into a tab and the tabs kept;
\* "keep" says whether the spaces left over before a tab are kept.
RECURSIVE FoldRun(_, _, _, _)
FoldRun(lead, W, g, keep) ==
    IF lead = <<>> THEN Rep(TAB, g \div W) \o Rep(SP, g % W)
    ELSE IF Head(lead) = SP THEN FoldRun(Tail(lead), W, g + 1, keep)
    ELSE Rep(TAB, g \div W) \o (IF keep THEN Rep(SP, g % W) ELSE <<>>) \o <<TAB>>
             \o FoldRun(Tail(lead), W, 0, keep)

FoldsWith(keep, cfg, in, out) ==
    LET li == Lines(in)
        lo == Lines(out)
    IN  cfg.indent = "tab" =>
            /\ Len(lo) = Len(li)
            /\ \A i \in 1..Len(li) :
                   lo[i].lead = FoldRun(li[i].lead, Width(cfg), 0, keep)

LeftoverDropped(cfg, in, out) == FoldsWith(FALSE, cfg, in, out)
LeftoverKept(cfg, in, out) == FoldsWith(TRUE, cfg, in, out)

\* C7 as amended: with -t every tab of the leading run is kept and every group
\* of W consecutive spaces becomes a tab; the spaces that do not complete a
\* group are kept as spaces at the end of the run and dropped before a tab.
C7_LeftoverDropped == OfEveryOutput(LeftoverDropped)

\* C7 as stated: in every expected file of a -t test the spaces that do not
\* complete a group of W are kept where they stand, also before a tab.
C7_Original ==
    Generated =>
        \A i \in FixtureIdx : LeftoverKept(TestCfg(i), TestInput(i), TestExpected(i))

\* A -t run on a line whose leading run has a space right before a tab.
C7_Witness ==
    /\ Wrote
    /\ LastCfg.indent = "tab"
    /\ \E i \in 1..Len(Lines(LastInput)) :
           LET lead == Lines(LastInput)[i].lead
           IN  /\ Len(lead) >= 2
               /\ lead[1] = SP
               /\ lead[2] = TAB
               /\ Lines(LastOutput)[i].lead[1] = TAB

----------------------------------------------------------------------------
(* C8: indentation conversion leaves the rest of the line alone.           *)

OnlyLeadChanges(cfg, in, out) ==
    (cfg.indent # "none" /\ cfg.eol = "none") =>
        LET li == Lines(in)
            lo == Lines(out)
        IN  /\ Len(lo) = Len(li)
            /\ \A i \in 1..Len(li) : lo[i].body = li[i].body /\ lo[i].term = li[i].term
            /\ out = Flatten([i \in 1..Len(li) |-> lo[i].lead \o li[i].body \o li[i].term])

\* C8: -s and -t change nothing but the leading run: the bytes of each line from
\* the first byte that is no space and no tab, and its terminator, are kept.
C8_OnlyLeadChanges == OfEveryOutput(OnlyLeadChanges)

\* A -s or -t run that changes the leading run of a line with a tab inside.
C8_Witness ==
    /\ Wrote
    /\ LastCfg.indent # "none"
    /\ LastCfg.eol = "none"
    /\ \E i \in 1..Len(Lines(LastInput)) :
           /\ Has(Lines(LastInput)[i].body, TAB)
           /\ Lines(LastOutput)[i].lead # Lines(LastInput)[i].lead

----------------------------------------------------------------------------
(* C9: indentation and line-ending conversion are independent.             *)

IndentAlone(cfg, data) == Convert(data, cfg.indent, Width(cfg), "none")
EolAlone(cfg, data) == Convert(data, "none", Width(cfg), cfg.eol)

BothIsEitherOrder(cfg, in, out) ==
    (cfg.indent # "none" /\ cfg.eol # "none") =>
        /\ out = EolAlone(cfg, IndentAlone(cfg, in))
        /\ out = IndentAlone(cfg, EolAlone(cfg, in))

\* Two runs, one with an indentation flag only and one with a line-ending flag
\* only, have been made one after the other.
TwoSteps ==
    /\ pc = "cli"
    /\ Len(commands) = 2
    /\ statuses = <<0, 0>>
    /\ LET c1 == Config(commands[1])
           c2 == Config(commands[2])
       IN  \/ c1.indent # "none" /\ c1.eol = "none" /\ c2.indent = "none" /\ c2.eol # "none"
           \/ c1.indent = "none" /\ c1.eol # "none" /\ c2.indent # "none" /\ c2.eol = "none"

\* The configuration with the flags of both steps.
Joined ==
    LET c1 == Config(commands[1])
        c2 == Config(commands[2])
    IN  IF c1.indent # "none"
        THEN [c1 EXCEPT !.eol = c2.eol, !.output = CliFiles[3]]
        ELSE [c1 EXCEPT !.indent = c2.indent, !.width = c2.width, !.output = CliFiles[3]]

\* C9: the file written with an indentation flag and a line-ending flag is the
\* file that the two conversions give one after the other, in either order; and
\* two runs, one conversion each, leave what the one run with both flags writes.
C9_Independent ==
    /\ OfEveryOutput(BothIsEitherOrder)
    /\ TwoSteps => fs[CliFiles[3]] = Output(Joined, fs)

\* Two runs, -t then -d or -d then -t, each of which changed the file.
C9_Witness ==
    /\ TwoSteps
    /\ fs[CliFiles[1]] # fs[CliFiles[2]]
    /\ fs[CliFiles[2]] # fs[CliFiles[3]]
    /\ Joined.indent = "tab"
    /\ Joined.eol = "dos"

----------------------------------------------------------------------------
(* C10: a file converted to DOS is all Dos.                                *)

AllDos(n, total) == Len(n) = 8 /\ n[1] = total /\ n[6] = total /\ n[7] = 0 /\ n[8] = 0

DosFixtureAllDos(cfg, in, out) ==
    cfg.eol = "dos" => AllDos(SummaryCounts(out), Len(Lines(in)))

\* A -d run followed by a summary of its output.
DosThenSummary ==
    /\ pc = "cli"
    /\ Len(commands) = 2
    /\ statuses = <<0, 0>>
    /\ Config(commands[1]).eol = "dos"
    /\ ~Converting(Config(commands[2]))

\* C10: the summary of a file that -d has written reports every line as Dos and
\* none as Unix or Malformed; so does the count of every expected file of a -d
\* test.
C10_DosRoundTrip ==
    /\ OfEveryOutput(DosFixtureAllDos)
    /\ DosThenSummary =>
           AllDos(SummaryNumbers(fs[CliFiles[3]]), Len(Lines(fs[CliFiles[1]])))

\* A -d run on a file with a Unix and a Malformed line, then its summary.
C10_Witness ==
    /\ DosThenSummary
    /\ \E i, j \in 1..Len(Lines(fs[CliFiles[1]])) :
           /\ Lines(fs[CliFiles[1]])[i].term = <<LF>>
           /\ Lines(fs[CliFiles[1]])[j].term \in {<<LF, CR>>, <<CR>>}
    /\ SummaryNumbers(fs[CliFiles[3]])[6] >= 2

----------------------------------------------------------------------------
(* C11: to-space conversion is idempotent.                                 *)

SpaceAgainSame(cfg, in, out) ==
    cfg.indent = "space" => Convert(out, "space", Width(cfg), "none") = out

\* Two runs a.txt -> b.txt -> c.txt, both with -s and the same width.
SpaceTwice ==
    /\ pc = "cli"
    /\ Len(commands) = 2
    /\ statuses = <<0, 0>>
    /\ LET c1 == Config(commands[1])
           c2 == Config(commands[2])
       IN  /\ c1.indent = "space"
           /\ c2.indent = "space"
           /\ Width(c1) = Width(c2)
           /\ c2.eol \in {"none", c1.eol}

\* C11: -s with width W applied to a file that -s with width W has written
\* gives that file again; so it does for every expected file of a -s test.
C11_SpaceIdempotent ==
    /\ OfEveryOutput(SpaceAgainSame)
    /\ SpaceTwice => fs[CliFiles[3]] = fs[CliFiles[2]]

\* -s -8 twice on a file with a tab in a leading run: the first run changes
\* the file, the second does not.
C11_Witness ==
    /\ SpaceTwice
    /\ Width(Config(commands[1])) = 8
    /\ \E i \in 1..Len(Lines(fs[CliFiles[1]])) : Has(Lines(fs[CliFiles[1]])[i].lead, TAB)
    /\ fs[CliFiles[2]] # fs[CliFiles[1]]
    /\ fs[CliFiles[3]] = fs[CliFiles[2]]

----------------------------------------------------------------------------
(* C12: to-tab and to-space, one after the other.                          *)

\* The lines of a -t file whose run was n spaces: to-space gives the n spaces
\* back; the run has become tabs alone exactly when W divides n, and else ends
\* with the n mod W spaces.
TabThenSpace(cfg, in, out) ==
    LET li == Lines(in)
        lo == Lines(out)
    IN  cfg.indent = "tab" =>
            /\ Len(lo) = Len(li)
            /\ \A i \in 1..Len(li) :
                   LET lead == li[i].lead
                       got == lo[i].lead
                       n == Len(lead)
                       W == Width(cfg)
                   IN  ~Has(lead, TAB) =>
                           /\ ToSpace(got, W) = lead
                           /\ ~Has(got, SP) <=> n % W = 0
                           /\ SubSeq(got, Len(got) - (n % W) + 1, Len(got)) = Rep(SP, n % W)

\* The lines of a -s file whose run was tabs alone: to-tab gives them back.
SpaceThenTab(cfg, in, out) ==
    LET li == Lines(in)
        lo == Lines(out)
    IN  cfg.indent = "space" =>
            /\ Len(lo) = Len(li)
            /\ \A i \in 1..Len(li) :
                   LET lead == li[i].lead
                   IN  ~Has(lead, SP) => ToTab(lo[i].lead, Width(cfg)) = lead

BackAndForth(cfg, in, out) == TabThenSpace(cfg, in, out) /\ SpaceThenTab(cfg, in, out)

\* Two runs a.txt -> b.txt -> c.txt with the same width and no line-ending
\* flag: -t then -s on runs of spaces, or -s then -t on runs of tabs.
RoundTrip ==
    /\ pc = "cli"
    /\ Len(commands) = 2
    /\ statuses = <<0, 0>>
    /\ LET c1 == Config(commands[1])
           c2 == Config(commands[2])
           ls == Lines(fs[CliFiles[1]])
       IN  /\ c1.eol = "none"
           /\ c2.eol = "none"
           /\ Width(c1) = Width(c2)
           /\ \/ /\ c1.indent = "tab"
                 /\ c2.indent = "space"
                 /\ \A i \in 1..Len(ls) : ~Has(ls[i].lead, TAB)
              \/ /\ c1.indent = "space"
                 /\ c2.indent = "tab"
                 /\ \A i \in 1..Len(ls) : ~Has(ls[i].lead, SP)

\* Only a run of spaces whose length W divides comes back.
OnlyMultiplesReturn(cfg, in, out) ==
    LET li == Lines(in)
        lo == Lines(out)
    IN  cfg.indent = "tab" =>
            \A i \in 1..Len(li) :
                LET lead == li[i].lead
                IN  (~Has(lead, TAB) /\ ToSpace(lo[i].lead, Width(cfg)) = lead)
                        => Len(lead) % Width(cfg) = 0

\* C12 as amended: -t followed by -s gives a run of n spaces back for every n,
\* and -s followed by -t a run of tabs; -t leaves tabs alone exactly when W
\* divides n and else keeps the n mod W spaces at the end of the run.
C12_BackAndForth ==
    /\ OfEveryOutput(BackAndForth)
    /\ RoundTrip => fs[CliFiles[3]] = fs[CliFiles[1]]

\* C12 as stated: in the expected files of the -t tests, -s gives the run of n
\* spaces back only when n is a multiple of W.
C12_Original ==
    Generated =>
        \A i \in FixtureIdx : OnlyMultiplesReturn(TestCfg(i), TestInput(i), TestExpected(i))

\* -t -2 then -s -2 on a file with a run of one space, which -t leaves and -s
\* gives back.
C12_Witness ==
    /\ RoundTrip
    /\ Config(commands[1]).indent = "tab"
    /\ Width(Config(commands[1])) = 2
    /\ \E i \in 1..Len(Lines(fs[CliFiles[1]])) : Lines(fs[CliFiles[1]])[i].lead = <<SP>>
    /\ fs[CliFiles[3]] = fs[CliFiles[1]]

----------------------------------------------------------------------------
(* C13: a run without replace mode leaves its input alone.                 *)

\* The input files as gen.cpp writes them.
InputFixture(name) ==
    CASE name = "/test1.txt" -> summaryTests_test1
      [] name = "/test2.txt" -> summaryTests_test2
      [] name = "/test3.txt" -> summaryTests_test3
      [] name = "/test4.txt" -> summaryTests_test4
      [] name = "/testSpace.txt" -> TextBytes(spaceToTabTests_testSpace)
      [] name = "/testTab.txt" -> TextBytes(tabToSpaceTests_testTab)
      [] name = "/testOptions.txt" -> TextBytes(optionsTests_testOptions)

InputNames == SummaryInputs \cup {"/testSpace.txt", "/testTab.txt", "/testOptions.txt"}

\* The last command ran without replace mode and exited 0.
PlainRun == Ran /\ LastExit = 0 /\ LastCfg.replace = "" /\ LastCfg.input # ""

\* How many of the commands run so far name the input of the last one.
UsesOfInput ==
    Cardinality({k \in 1..Len(commands) : Config(commands[k]).input = LastCfg.input})

\* C13: after a -x run or a conversion run with -o the input file holds the
\* bytes it held before; all through the unit tests the files under
\* testdata/input hold what gen.cpp wrote.
C13_InputKept ==
    /\ PlainRun => (Exists(fs, LastCfg.input) /\ fs[LastCfg.input] = before[LastCfg.input])
    /\ Generated => \A n \in InputNames : fs[inputDir \o n] = InputFixture(n)

\* A conversion of input/test1.txt that changes bytes, after a summary and
\* other conversions of the same file.
C13_Witness ==
    /\ PlainRun
    /\ pc = "runTests"
    /\ Converting(LastCfg)
    /\ LastCfg.input = inputDir \o "/test1.txt"
    /\ UsesOfInput >= 3
    /\ LastOutput # LastInput
    /\ fs[LastCfg.input] = summaryTests_test1

----------------------------------------------------------------------------
(* C14: the exit codes.                                                    *)

ValueFlags == {"-i", "--input", "-o", "--output", "-r", "--replace"}
HelpFlags == {"-h", "--help", "-v", "--version"}
PlainFlags ==
    {"-s", "--space", "-t", "--tab", "-d", "--dos", "-u", "--unix", "-x", "-2", "-4", "-8"}

\* Position k of the command line holds the value of the flag before it.
IsValue(argv, k) == k > 1 /\ argv[k - 1] \in ValueFlags

\* The value that follows one of the flags, or "" when none of them is given.
ValueOf(argv, flags) ==
    LET ks == {k \in 2..Len(argv) : argv[k - 1] \in flags}
    IN  IF ks = {} THEN "" ELSE argv[CHOOSE k \in ks : TRUE]

InputOf(argv) == ValueOf(argv, {"-i", "--input"})
OutputOf(argv) == ValueOf(argv, {"-o", "--output"})
ReplaceOf(argv) == ValueOf(argv, {"-r", "--replace"})

UnknownFlag(argv) ==
    \E k \in 1..Len(argv) :
        ~IsValue(argv, k) /\ argv[k] \notin ValueFlags \cup HelpFlags \cup PlainFlags
MissingValue(argv) == argv # <<>> /\ argv[Len(argv)] \in ValueFlags
NoSuchInput(argv, f) == InputOf(argv) # "" /\ ~Exists(f, InputOf(argv))
SamePath(argv) == InputOf(argv) # "" /\ InputOf(argv) = OutputOf(argv)
ReplaceWithOutput(argv) == ReplaceOf(argv) # "" /\ OutputOf(argv) # ""
AsksHelp(argv) == \E k \in 1..Len(argv) : ~IsValue(argv, k) /\ argv[k] \in HelpFlags
HasConversion(argv) ==
    \E k \in 1..Len(argv) :
        argv[k] \in {"-s", "--space", "-t", "--tab", "-d", "--dos", "-u", "--unix"}

Mistaken(argv, f) ==
    \/ UnknownFlag(argv)
    \/ MissingValue(argv)
    \/ NoSuchInput(argv, f)
    \/ SamePath(argv)
    \/ ReplaceWithOutput(argv)

\* A command line with nothing wrong that asks for help or the version, or
\* names an input and an output, or a file to convert in place.
WellFormed(argv, f) ==
    /\ ~Mistaken(argv, f)
    /\ \/ AsksHelp(argv)
       \/ Exists(f, InputOf(argv)) /\ OutputOf(argv) # ""
       \/ Exists(f, ReplaceOf(argv)) /\ HasConversion(argv)

\* The commands of the unit tests with the exit code each REQUIREs.
TestCommands ==
    UNION {{runTests[i].cmds[k] : k \in 1..Len(runTests[i].cmds)} : i \in 1..Len(runTests)}

\* The exit code of the last command is the one its unit test REQUIREs.
AsRequired == \E c \in TestCommands : c.argv = LastArgv /\ (LastExit = 0) = c.zero

\* C14: tfc exits non-zero on an unknown flag, a flag without its value, an
\* input that does not exist, an output path equal to the input path and -r
\* with -o, and 0 on -h, -v and every well-formed run; the unit tests REQUIRE
\* these codes and get them.
C14_ExitCodes ==
    /\ Ran =>
           /\ Mistaken(LastArgv, before) => LastExit # 0
           /\ WellFormed(LastArgv, before) => LastExit = 0
    /\ Generated =>
           /\ \A c \in TestCommands :
                  /\ Mistaken(c.argv, fs) => ~c.zero
                  /\ WellFormed(c.argv, fs) => c.zero
           /\ Ran => AsRequired

\* The unit tests have run tfc with an unknown flag, a missing value, a missing
\* input and equal paths, each exiting non-zero, and with -h, --version and a
\* conversion, each exiting 0.
C14_Witness ==
    /\ pc = "done"
    /\ \A wrong \in {1, 2, 3, 4} :
           \E k \in 1..Len(commands) :
               /\ statuses[k] # 0
               /\ CASE wrong = 1 -> UnknownFlag(commands[k])
                    [] wrong = 2 -> MissingValue(commands[k])
                    [] wrong = 3 -> NoSuchInput(commands[k], fs)
                    [] wrong = 4 -> SamePath(commands[k])
    /\ \A good \in {"-h", "--version", "--dos"} :
           \E k \in 1..Len(commands) : statuses[k] = 0 /\ commands[k][1] = good

----------------------------------------------------------------------------
(* C15: a run that fails writes nothing.                                   *)

\* The last command exited non-zero.
Failed == Ran /\ LastExit # 0

\* C15: after a run that exits non-zero the files are the files from before
\* the run: none is created, none is changed.
C15_ErrorWritesNothing == Failed => fs = before

\* testOptions6: --space with --input and --output naming testOptions.txt has
\* exited non-zero and the file is as gen.cpp wrote it.
C15_Witness ==
    /\ Failed
    /\ pc = "runTests"
    /\ LastArgv[1] = "--space"
    /\ SamePath(LastArgv)
    /\ Exists(before, InputOf(LastArgv))
    /\ fs[InputOf(LastArgv)] = TextBytes(optionsTests_testOptions)
    /\ DOMAIN fs = DOMAIN before

----------------------------------------------------------------------------
(* C16: replace mode without a conversion.                                 *)

ReplaceAlone(argv) == ReplaceOf(argv) # "" /\ ~HasConversion(argv)

\* C16: -r or --replace without a conversion flag exits non-zero and leaves the
\* file; the unit tests REQUIRE a non-zero exit for it.
C16_ReplaceAloneRejected ==
    /\ (Ran /\ ReplaceAlone(LastArgv)) => (LastExit # 0 /\ fs = before)
    /\ Generated => \A c \in TestCommands : ReplaceAlone(c.argv) => ~c.zero

\* testOptions5: -r and then --replace on testOptions.txt have both exited
\* non-zero, and the file is no summary.
C16_Witness ==
    /\ pc = "runTests"
    /\ Len(commands) >= 2
    /\ LastArgv = <<"--replace", inputDir \o "/testOptions.txt">>
    /\ commands[Len(commands) - 1] = <<"-r", inputDir \o "/testOptions.txt">>
    /\ LastExit # 0
    /\ statuses[Len(statuses) - 1] # 0
    /\ fs[ReplaceOf(LastArgv)] = TextBytes(optionsTests_testOptions)

----------------------------------------------------------------------------
(* C17: replace mode with a conversion.                                    *)

\* The command line with -r <file> taken out.
RECURSIVE WithoutReplace(_)
WithoutReplace(argv) ==
    IF argv = <<>> THEN <<>>
    ELSE IF Head(argv) \in {"-r", "--replace"}
         THEN (IF Len(argv) >= 2 THEN WithoutReplace(Tail(Tail(argv))) ELSE <<>>)
         ELSE <<Head(argv)>> \o WithoutReplace(Tail(argv))

\* The same conversion of the same file, written to another file.
ToOtherFile(argv) == WithoutReplace(argv) \o <<"-i", ReplaceOf(argv), "-o", NoFile>>

\* The last command was a conversion in place of a file that exists.
Replaced ==
    /\ Ran
    /\ Exists(before, ReplaceOf(LastArgv))
    /\ HasConversion(LastArgv)
    /\ ~Mistaken(LastArgv, before)

AllEndIn(data, term) ==
    LET ls == Lines(data)
    IN  \A i \in 1..Len(ls) : ls[i].term = term

----------------------------------------------------------------------------
(* C18: writing over a file that exists.                                   *)

\* The files without the file p.
Without(f, p) == [q \in DOMAIN f \ {p} |-> f[q]]

\* The last command read an input and named an output that existed.
Overwrote ==
    /\ Ran
    /\ ~Mistaken(LastArgv, before)
    /\ Exists(before, InputOf(LastArgv))
    /\ Exists(before, OutputOf(LastArgv))

----------------------------------------------------------------------------
(* C19: the summary file.                                                  *)

IsDigit(b) == b \in Zero..(Zero + 9)

\* A decimal number without sign or leading zero.
IsNumber(field) ==
    /\ field # <<>>
    /\ \A i \in 1..Len(field) : IsDigit(field[i])
    /\ Len(field) > 1 => field[1] # Zero

TwoLines(cfg, in, out) ==
    ~Converting(cfg) =>
        LET ls == SplitOn(out, LF)
            fields == SplitOn(ls[2], SP)
        IN  /\ Len(ls) = 3
            /\ ls[3] = <<>>
            /\ ls[1] = PathBytes(cfg.input)
            /\ Len(fields) = 8
            /\ \A i \in 1..8 : IsNumber(fields[i])
            /\ SummaryNumbers(out)[1] = Len(Lines(in))
            /\ LeadingCounts(cfg, in, out)
            /\ TerminatorCounts(cfg, in, out)

\* C19: a summary file is two lines, each ended by LF: the path given after -i,
\* and eight numbers with one space between them: the lines, the space-only,
\* tab-only, neither and both lines, the Dos, Unix and Malformed lines.
C19_SummaryFormat == OfEveryOutput(TwoLines)

\* test3: tfc -x on input/test3.txt has written the file gen.cpp expects.
C19_Witness ==
    /\ Wrote
    /\ pc = "runTests"
    /\ ~Converting(LastCfg)
    /\ LastCfg.input = inputDir \o "/test3.txt"
    /\ LastOutput = fs[expectedDir \o "/test3.txt"]
    /\ SplitOn(LastOutput, LF)[1] = PathBytes(inputDir \o "/test3.txt")
    /\ SummaryNumbers(LastOutput) = <<9, 1, 1, 3, 4, 6, 3, 0>>

----------------------------------------------------------------------------
(* C20: inside one run the source is read before the output is written.    *)

\* The command line of the run.
RunCfg == Config(commands[1])

\* C20: until the source is in memory no file has changed; when the output is
\* about to be written the buffer holds the whole source as the run found it,
\* read once; a run writes at most once, as its last step, what it has made
\* from the buffer, so a file converted in place is never read after the write
\* to it; and the steps together leave the exit status and the files that the
\* run taken as a whole leaves.
C20_ReadBeforeWrite ==
    /\ pc \in {"tfc", "tfc.read"} => (fs = before /\ obj.reads = 0 /\ ~obj.wrote.done)
    /\ pc = "tfc.write" =>
           /\ fs = before
           /\ obj.op = "read"
           /\ obj.reads = 1
           /\ obj.data = before[Source(RunCfg)]
    /\ pc = "tfc.exit" =>
           /\ obj.reads <= 1
           /\ obj.wrote.done =>
                  /\ obj.op = "write"
                  /\ obj.reads = 1
                  /\ obj.calls = 2
                  /\ obj.data = before[Source(RunCfg)]
                  /\ obj.wrote.data = Output(RunCfg, before)
                  /\ fs = Store(before, Dest(RunCfg), obj.wrote.data)
           /\ ~obj.wrote.done => fs = before
           /\ statuses = <<Tfc(commands[1], before, dirs).exit>>
           /\ fs = Tfc(commands[1], before, dirs).fs

\* A conversion in place has ended: the file was read once, then written once,
\* the buffer still holds what the file held, and the file now holds other
\* bytes, the conversion of the buffer.
C20_Witness ==
    /\ pc = "tfc.exit"
    /\ statuses = <<0>>
    /\ RunCfg.replace # ""
    /\ Source(RunCfg) = Dest(RunCfg)
    /\ obj.wrote.done
    /\ obj.op = "write"
    /\ obj.data = before[RunCfg.replace]
    /\ fs[RunCfg.replace] # before[RunCfg.replace]
    /\ fs[RunCfg.replace] = Convert(obj.data, RunCfg.indent, Width(RunCfg), RunCfg.eol)

----------------------------------------------------------------------------
(* C21: what BinaryFile::write(d) puts in a file, read() gets back.        *)

\* The last call was a read() by an object of the kind whose buffer was empty,
\* of the file its own write has written.
ReadBack(kind) ==
    /\ obj.kind = kind
    /\ obj.op = "read"
    /\ obj.prev = <<>>
    /\ obj.wrote.done

\* C21: BinaryFile::write(d) on a path that can be opened returns 0, and a
\* read() of that path into an empty buffer afterwards returns 0 and leaves
\* the buffer equal to d, byte for byte.
C21_WriteThenRead ==
    /\ (obj.kind = "binary" /\ obj.op = "writeOther" /\ CanCreate(dirs, obj.fileName)) =>
           (obj.ret = 0 /\ obj.wrote = [done |-> TRUE, data |-> obj.data])
    /\ ReadBack("binary") => (obj.ret = 0 /\ obj.data = obj.wrote.data)

\* NUL and CR have been written, and read back into an empty buffer.
C21_Witness ==
    /\ ReadBack("binary")
    /\ obj.wrote.data = <<NUL, CR>>
    /\ obj.data = <<NUL, CR>>
    /\ fs[obj.fileName] = <<NUL, CR>>

----------------------------------------------------------------------------
(* C22: the lines a text-mode read leaves in the buffer.                   *)

\* A line terminator starts at position p of s: LF, NUL, or CR before LF.
BoundaryAt(s, p) ==
    \/ s[p] \in {LF, NUL}
    \/ s[p] = CR /\ p < Len(s) /\ s[p + 1] = LF

\* The lines of s without their terminators: s split at LF, CR LF and NUL.
RECURSIVE SplitAtBoundaries(_)
SplitAtBoundaries(s) ==
    IF s = <<>> THEN <<>>
    ELSE LET k == CHOOSE n \in 0..Len(s) :
                      /\ \A p \in 1..n : ~BoundaryAt(s, p)
                      /\ (n = Len(s) \/ BoundaryAt(s, n + 1))
         IN  IF k = Len(s) THEN <<s>>
             ELSE <<SubSeq(s, 1, k)>>
                      \o SplitAtBoundaries(Drop(s, IF s[k + 1] = CR THEN k + 2 ELSE k + 1))

RECURSIVE WithoutTrailingEmpty(_)
WithoutTrailingEmpty(ls) ==
    IF ls # <<>> /\ ls[Len(ls)] = <<>>
    THEN WithoutTrailingEmpty(SubSeq(ls, 1, Len(ls) - 1))
    ELSE ls

\* The last call was a read() of a TextFile that returned 0.
TextRead == obj.kind = "text" /\ obj.op = "read" /\ obj.ret = 0

\* C22: a text-mode read that returns 0 has added to the buffer one entry for
\* every line of the file, in file order and without its terminator, the file
\* split at LF, CR LF and NUL, except the empty lines at the end of the file.
C22_EveryLineRead ==
    TextRead =>
        obj.data = obj.prev \o WithoutTrailingEmpty(SplitAtBoundaries(fs[obj.fileName]))

----------------------------------------------------------------------------
(* C23: the results of read() and write().                                 *)

\* The bytes a write of the buffer puts in the file.
FileBytes(kind, data) == IF kind = "binary" THEN data ELSE TextBytes(data)

\* The step is a call of write(void) or write(other).
Writes == obj'.op \in {"write", "writeOther"}

\* C23: read() returns 0 when the file exists and 1 when it does not, and a
\* read() that returns 1 leaves the buffer as it was; write() returns 0 when
\* the file can be created, and the file then holds the buffer, and 1 when it
\* cannot, and no file changes; write(void) leaves the buffer as it was and
\* no read or write changes the file name.
C23_Results ==
    [][/\ obj'.op = "read" =>
              /\ obj'.ret = (IF Exists(fs, obj.fileName) THEN 0 ELSE 1)
              /\ obj'.ret = 1 => obj'.data = obj.data
              /\ obj'.fileName = obj.fileName
              /\ fs' = fs
       /\ Writes =>
              /\ obj'.ret = (IF CanCreate(dirs, obj.fileName) THEN 0 ELSE 1)
              /\ obj'.ret = 0 =>
                     /\ Exists(fs', obj.fileName)
                     /\ fs'[obj.fileName] = FileBytes(obj.kind, obj'.data)
              /\ obj'.ret = 1 => fs' = fs
              /\ obj'.fileName = obj.fileName
       /\ obj'.op = "write" => obj'.data = obj.data]_vars

\* A TextFile with the line H in its buffer, on a path whose directory does
\* not exist: its write and then its read have returned 1, the line is still
\* there.
C23_Witness ==
    /\ obj.kind = "text"
    /\ obj.op = "read"
    /\ obj.ret = 1
    /\ obj.data = <<<<LetterH>>>>
    /\ ~CanCreate(dirs, obj.fileName)
    /\ fs = EmptyFs

----------------------------------------------------------------------------
(* C24: when a unit test of a fixture passes.                              *)

\* The unit test that has just ended.
Ended == testIdx - 1
TestEnded == pc = "runTests" /\ commands # <<>> /\ cmdIdx = 0

\* C24: a unit test of a fixture that has ended without a failed REQUIRE has
\* had exit status 0 from its command, and its expected file and its output
\* file both exist and hold the same bytes.
C24_PassMeansIdentical ==
    (TestEnded /\ Ended \in FixtureIdx /\ Ended \notin failed) =>
        /\ statuses[1] = 0
        /\ Exists(fs, runTests[Ended].expected)
        /\ Exists(fs, runTests[Ended].output)
        /\ fs[runTests[Ended].output] = fs[runTests[Ended].expected]

----------------------------------------------------------------------------
(* C25: the indentation conversions keep the column of the leading run.    *)

\* The column at the end of a leading run: a tab advances to the next multiple
\* of W, any other byte by one.
ColumnAfter(lead, W) ==
    LET at[k \in 0..Len(lead)] ==
            IF k = 0 THEN 0
            ELSE IF lead[k] = TAB THEN ((at[k - 1] \div W) + 1) * W
            ELSE at[k - 1] + 1
    IN  at[Len(lead)]

ColumnKept(cfg, in, out) ==
    LET li == Lines(in)
        lo == Lines(out)
        W == Width(cfg)
    IN  cfg.indent # "none" =>
            /\ Len(lo) = Len(li)
            /\ \A i \in 1..Len(li) :
                   LET col == ColumnAfter(li[i].lead, W)
                   IN  /\ ColumnAfter(lo[i].lead, W) = col
                       /\ lo[i].lead = IF cfg.indent = "space" THEN Rep(SP, col)
                                       ELSE Rep(TAB, col \div W) \o Rep(SP, col % W)

\* C25: in every output of -s or -t with width W, and in every expected file
\* of gen.cpp for them, the leading run of each line ends at the column the
\* leading run of the input line ends at; -s writes that many spaces, -t
\* writes column div W tabs and then column mod W spaces.
C25_ColumnKept == OfEveryOutput(ColumnKept)

\* A unit test has run -t on a file with a line whose leading run mixes tabs
\* and spaces and ends between two tab stops.
C25_Witness ==
    /\ pc = "runTests"
    /\ Wrote
    /\ LastCfg.indent = "tab"
    /\ \E i \in 1..Len(Lines(LastInput)) :
           LET lead == Lines(LastInput)[i].lead
               col == ColumnAfter(lead, Width(LastCfg))
           IN  /\ \E p \in 1..Len(lead) : lead[p] = TAB
               /\ \E p \in 1..(Len(lead) - 1) : lead[p] = SP /\ lead[p + 1] = TAB
               /\ col % Width(LastCfg) # 0
               /\ Lines(LastOutput)[i].lead # lead

----------------------------------------------------------------------------
(* C26: without a width flag the tab width is 4.                           *)

\* The command line of cfg with -4 after it.
WithFour(cfg) == ParseArgs(<<"-4">>, cfg)

NoWidthFlag(cfg) == cfg.indent # "none" /\ cfg.width = 0

AsWithFour(cfg, in, out) ==
    NoWidthFlag(cfg) =>
        LET c4 == WithFour(cfg)
        IN  /\ c4.width # cfg.width
            /\ out = Convert(in, c4.indent, Width(c4), c4.eol)

\* C26: every output of -s or -t without a width flag, and every expected
\* file of gen.cpp for such a command, holds the bytes the same command with
\* -4 writes.
C26_DefaultWidth == OfEveryOutput(AsWithFour)

\* -s without a width flag has been run on a file where the width shows: the
\* output is neither the one of -2 nor the one of -8.
C26_Witness ==
    /\ Wrote
    /\ NoWidthFlag(LastCfg)
    /\ LastCfg.indent = "space"
    /\ LastOutput # Convert(LastInput, "space", 2, LastCfg.eol)
    /\ LastOutput # Convert(LastInput, "space", 8, LastCfg.eol)
    /\ LastOutput = Tfc(<<"-s", "-4", "-i", Source(LastCfg), "-o", Dest(LastCfg)>> ,
                        before, dirs).fs[Dest(LastCfg)]

----------------------------------------------------------------------------
(* C27: read() appends to the buffer.                                      *)

\* What a read of the object's file leaves in an empty buffer.
Content == FileRead(obj.kind, <<>>, obj.fileName, fs).data

\* C27: after a read() that returned 0 the buffer is what it was before the
\* call followed by the content of the file, for a BinaryFile and a TextFile.
C27_ReadAppends ==
    (obj.op = "read" /\ obj.ret = 0) =>
        /\ obj.data = obj.prev \o Content
        /\ obj.prev = <<>> => obj.data = Content
        /\ obj.prev = Content => obj.data = Content \o Content

\* A TextFile has read the file H LF twice without a clear: the line H is in
\* the buffer twice.
C27_Witness ==
    /\ obj.kind = "text"
    /\ obj.op = "read"
    /\ obj.ret = 0
    /\ obj.reads = 2
    /\ fs[obj.fileName] = <<LetterH, LF>>
    /\ obj.prev = <<<<LetterH>>>>
    /\ obj.data = <<<<LetterH>>, <<LetterH>>>>

----------------------------------------------------------------------------
(* C28: equal(other) of the two classes.                                   *)

Compared(kind) == obj.kind = kind /\ obj.op = "equal"

\* C28: TextFile::equal(other) is true whenever the buffer is a prefix of the
\* buffer of other, the empty buffer included, and false when a line differs
\* from the line of other at its place; BinaryFile::equal(other) is true
\* exactly when the two buffers have the same length and the same elements.
C28_Equal ==
    /\ Compared("text") =>
           /\ IsPrefix(obj.data, obj.other) => obj.same = "true"
           /\ obj.data = <<>> => obj.same = "true"
           /\ (\E i \in 1..Len(obj.data) :
                   i <= Len(obj.other) /\ obj.data[i] # obj.other[i]) => obj.same = "false"
    /\ Compared("binary") => obj.same = (IF obj.data = obj.other THEN "true" ELSE "false")

\* A TextFile holding the line H has been compared with one holding the line H
\* twice, and equal has returned true; the other way round equal has no
\* second line to look at in the shorter buffer.
C28_Witness ==
    /\ Compared("text")
    /\ obj.data = <<<<LetterH>>>>
    /\ obj.other = <<<<LetterH>>, <<LetterH>>>>
    /\ obj.same = "true"
    /\ TextFile_equal(obj.other, obj.data) = {"true", "false", "crash"}
    /\ BinaryFile_equal(obj.data, obj.other) = {"false"}

----------------------------------------------------------------------------
(* C29: the fixtures are generated before the first unit test.             *)

\* The generator is at work: init has been called and has not returned.
Generating == pc \notin {"main", "nolink", "init", "runTests", "crashed", "done", "cli", "session", "lib"}

\* The first command of the unit tests has not run yet.
BeforeFirstCommand == pc = "runTests" /\ commands = <<>>

\* The paths under testdata that the commands of the unit tests read.
SourcesRead ==
    {Source(Config(c.argv)) : c \in TestCommands} \cap UNION {DirFiles[d] : d \in TestDirs}

\* The order of gen.cpp's init and the unit tests: no command runs while the
\* generator is at work; when it has returned the three directories exist, the
\* output directory is empty before the first command, the files under
\* testdata are the ones this run has written, every input file a command
\* reads holds the generator's bytes, every expected file a unit test reads
\* exists, and a file left by an earlier run is gone or written anew.
GeneratedFirst ==
    /\ Generating => (commands = <<>> /\ testIdx = 0)
    /\ (Generating \/ Generated) => dirs = TestDirs
    /\ BeforeFirstCommand =>
           /\ \A p \in DOMAIN fs : ParentDir(p) \in {inputDir, expectedDir}
           /\ \A p \in DOMAIN before : Exists(fs, p) => fs[p] # before[p]
    /\ Generated =>
           /\ \A p \in SourcesRead :
                  ParentDir(p) = inputDir =>
                      /\ Exists(fs, p)
                      /\ \E name \in InputNames :
                             p = inputDir \o name /\ fs[p] = InputFixture(name)
           /\ \A i \in FixtureIdx : Exists(fs, runTests[i].expected)
           /\ fs[expectedDir \o "/test1s.txt"] = spaceTests_test1

\* C29: the test program generates all fixtures before it runs any test: the
\* init() that main calls is the generator of gen.cpp, so the program is never
\* left without it, and the generator and the unit tests keep the order above.
C29_GeneratedFirst ==
    /\ pc # "nolink"
    /\ GeneratedFirst

----------------------------------------------------------------------------
(* C30: the unit tests leave the files under testdata/input alone.         *)

\* The file a command of the unit tests is to write.
Target(c) == Dest(Config(c.argv))

\* The paths whose file is not what it was before the last command.
Changed ==
    {p \in (DOMAIN fs) \cup (DOMAIN before) :
        ~Exists(fs, p) \/ ~Exists(before, p) \/ fs[p] # before[p]}

\* Where the commands of the unit tests are to write: under testdata/input
\* only the ones REQUIREd to fail, all others under testdata/output.
TargetsApart ==
    \A c \in TestCommands :
        Target(c) # "" =>
            IF ParentDir(Target(c)) = inputDir
            THEN ~c.zero /\ (ReplaceAlone(c.argv) \/ SamePath(c.argv))
            ELSE ParentDir(Target(c)) = outputDir

\* C30: of the commands of the unit tests, those that are to write a file
\* under testdata/input are -r without a conversion or have the output equal
\* to the input, and a non-zero exit is REQUIREd of them; all others that
\* write are to write under testdata/output. In the run no command changes a
\* file outside testdata/output, and after the last unit test every input
\* file holds the bytes the generator has written.
C30_InputsUntouched ==
    /\ TargetsApart
    /\ (Generated /\ Ran) =>
           /\ \A p \in Changed : ParentDir(p) = outputDir
           /\ ParentDir(Dest(LastCfg)) = inputDir => (LastExit # 0 /\ Changed = {})
    /\ pc = "done" =>
           \A name \in InputNames :
               /\ Exists(fs, inputDir \o name)
               /\ fs[inputDir \o name] = InputFixture(name)

\* All unit tests have run, none has failed, the commands that name an input
\* file as their destination have been among them, and testOptions.txt holds
\* its five lines.
C30_Witness ==
    /\ pc = "done"
    /\ failed = {}
    /\ \E k \in 1..Len(commands) :
           /\ ParentDir(Dest(Config(commands[k]))) = inputDir
           /\ SamePath(commands[k])
           /\ statuses[k] # 0
    /\ \E k \in 1..Len(commands) : ReplaceAlone(commands[k]) /\ statuses[k] # 0
    /\ fs[inputDir \o "/testOptions.txt"] = TextBytes(optionsTests_testOptions)
    /\ Exists(fs, outputDir \o "/testOverwrite.txt")

====
